---- MODULE Spec2Model ----
(***************************************************************************)
(* Offscreen multi-pass rendering and command-buffer re-recording in the   *)
(* Vulkan examples: bloom (base/vkx/compute.hpp), shadow mapping           *)
(* (unnamed/part_001), offscreen shadow mapping                            *)
(* (examples/offscreen/shadowmapping.cpp), PBR basics (unnamed/part_000)   *)
(* and screenshot capture (examples/screenshot/screenshot.cpp).            *)
(*                                                                         *)
(* A command buffer is the sequence of the commands recorded into it.  A   *)
(* submitted command buffer is run by the device as a queue of render pass *)
(* instances whose pipeline stages advance asynchronously, ordered only by *)
(* the subpass dependencies the render passes declare.                     *)
(***************************************************************************)
EXTENDS Integers, Sequences, FiniteSets, TLC

\* ------------------------------------------------------------------ bounds
\* drawCmdBuffers.size(): one draw command buffer per swapchain image.
SwapchainImages == 2
\* Frames submitted by draw() in one run.
MaxFrames == 3
\* Frames the queue holds before draw() has to wait for the oldest one.
MaxInFlight == 2
\* Calls of a recording function in one run.
MaxRecordings == 3
\* Values the timer of the example base is seen at by update(), in quarter
\* turns of the light's orbit.
TimerSteps == 3
\* Calls of Compute::submit in one run.
MaxSubmits == 3
\* Times semaphores.ready is signalled in one run.
MaxSignals == 2
\* commandBuffers.size() of one Compute::submit.
MaxCommandBuffers == 1

\* ------------------------------------------------------- program constants
FB_DIM == 256
SHADOWMAP_DIM == 2048
GRID_DIM == 7
NumMaterials == 11
NumObjects == 4
NumScenes == 2

Examples == {"bloom", "shadowmapping", "offscreen", "pbrbasic", "screenshot"}

\* ---------------------------------------------------------------- commands
\* One recorded command: the call, its two handle arguments, an index and an
\* extent (0 where the call has none).
Cmd(op, a, b, n, m) == [op |-> op, a |-> a, b |-> b, n |-> n, m |-> m]

vkCmdBeginRenderPass(rp, fb, idx, extent) == Cmd("BeginRenderPass", rp, fb, idx, extent)
vkCmdEndRenderPass == Cmd("EndRenderPass", "", "", 0, 0)
vkCmdSetViewport(extent) == Cmd("SetViewport", "", "", 0, extent)
vkCmdSetScissor(extent) == Cmd("SetScissor", "", "", 0, extent)
vkCmdSetDepthBias == Cmd("SetDepthBias", "depthBiasConstant", "depthBiasSlope", 0, 0)
vkCmdBindDescriptorSets(layout, set) == Cmd("BindDescriptorSets", layout, set, 0, 0)
vkCmdBindPipeline(pipeline) == Cmd("BindPipeline", pipeline, "", 0, 0)
vkCmdBindVertexBuffers(model, idx) == Cmd("BindVertexBuffers", model, "", idx, 0)
vkCmdBindIndexBuffer(model, idx) == Cmd("BindIndexBuffer", model, "", idx, 0)
vkCmdDrawIndexed(model, idx) == Cmd("DrawIndexed", model, "", idx, 0)
vkCmdDraw(vertexCount) == Cmd("Draw", "", "", vertexCount, 0)
vkCmdPushConstants(stage, idx, value) == Cmd("PushConstants", stage, "", idx, value)
drawUI == Cmd("DrawUI", "", "", 0, 0)
vkEndCommandBuffer == Cmd("EndCommandBuffer", "", "", 0, 0)

\* vkBeginCommandBuffer on a buffer of a pool created with the reset flag
\* performs an implicit reset: whatever was recorded before is dropped.
vkBeginCommandBuffer_NoReset(cmdBuffer) ==
    cmdBuffer \o <<Cmd("BeginCommandBuffer", "", "", 0, 0)>>

vkBeginCommandBuffer(cmdBuffer) == <<Cmd("BeginCommandBuffer", "", "", 0, 0)>>

\* The extent of the window (width, height of the example base) is written 0.
WindowExtent == 0

\* --------------------------------------------------- bloom: recording
\* The two offscreen passes, recorded only while bloom is on: the glow pass
\* into framebuffers[0], then the vertical blur into framebuffers[1].
bloom_offscreenPasses ==
    << vkCmdSetViewport(FB_DIM),
       vkCmdSetScissor(FB_DIM),
       vkCmdBeginRenderPass("offscreenPass.renderPass", "offscreenPass.framebuffers[0]", 0, FB_DIM),
       vkCmdBindDescriptorSets("pipelineLayouts.scene", "descriptorSets.scene"),
       vkCmdBindPipeline("pipelines.glowPass"),
       vkCmdBindVertexBuffers("models.ufoGlow", 0),
       vkCmdBindIndexBuffer("models.ufoGlow", 0),
       vkCmdDrawIndexed("models.ufoGlow", 0),
       vkCmdEndRenderPass,
       vkCmdBeginRenderPass("offscreenPass.renderPass", "offscreenPass.framebuffers[1]", 1, FB_DIM),
       vkCmdBindDescriptorSets("pipelineLayouts.blur", "descriptorSets.blurVert"),
       vkCmdBindPipeline("pipelines.blurVert"),
       vkCmdDraw(3),
       vkCmdEndRenderPass >>

\* The scene draws of the third (onscreen) pass.
bloom_sceneDraws ==
    << vkCmdSetViewport(WindowExtent),
       vkCmdSetScissor(WindowExtent),
       vkCmdBindDescriptorSets("pipelineLayouts.scene", "descriptorSets.skyBox"),
       vkCmdBindPipeline("pipelines.skyBox"),
       vkCmdBindVertexBuffers("models.skyBox", 0),
       vkCmdBindIndexBuffer("models.skyBox", 0),
       vkCmdDrawIndexed("models.skyBox", 0),
       vkCmdBindDescriptorSets("pipelineLayouts.scene", "descriptorSets.scene"),
       vkCmdBindPipeline("pipelines.phongPass"),
       vkCmdBindVertexBuffers("models.ufo", 0),
       vkCmdBindIndexBuffer("models.ufo", 0),
       vkCmdDrawIndexed("models.ufo", 0) >>

\* The horizontal blur, drawn on top of the scene from framebuffers[1].
bloom_horizontalBlur ==
    << vkCmdBindDescriptorSets("pipelineLayouts.blur", "descriptorSets.blurHorz"),
       vkCmdBindPipeline("pipelines.blurHorz"),
       vkCmdDraw(3) >>

\* Faulty variant: the horizontal blur is drawn whether or not bloom is on.
bloom_recordOne_BlurAlways(cmdBuffer, i, bloomOn) ==
    vkBeginCommandBuffer(cmdBuffer)
      \o (IF bloomOn THEN bloom_offscreenPasses ELSE << >>)
      \o << vkCmdBeginRenderPass("renderPass", "frameBuffers[i]", i, WindowExtent) >>
      \o bloom_sceneDraws
      \o bloom_horizontalBlur
      \o << drawUI, vkCmdEndRenderPass, vkEndCommandBuffer >>

\* Faulty variant: the glow pass is recorded a second time into framebuffers[1].
bloom_recordOne_TwoWriters(cmdBuffer, i, bloomOn) ==
    vkBeginCommandBuffer(cmdBuffer)
      \o (IF bloomOn
            THEN SubSeq(bloom_offscreenPasses, 1, 9)
                   \o << [bloom_offscreenPasses[3] EXCEPT !.b = "offscreenPass.framebuffers[1]", !.n = 1] >>
                   \o SubSeq(bloom_offscreenPasses, 4, 9)
                   \o SubSeq(bloom_offscreenPasses, 10, 14)
            ELSE << >>)
      \o << vkCmdBeginRenderPass("renderPass", "frameBuffers[i]", i, WindowExtent) >>
      \o bloom_sceneDraws
      \o (IF bloomOn THEN bloom_horizontalBlur ELSE << >>)
      \o << drawUI, vkCmdEndRenderPass, vkEndCommandBuffer >>

\* Faulty variant: with bloom off the scene is drawn before the skybox.
bloom_recordOne_Reordered(cmdBuffer, i, bloomOn) ==
    vkBeginCommandBuffer(cmdBuffer)
      \o (IF bloomOn THEN bloom_offscreenPasses ELSE << >>)
      \o << vkCmdBeginRenderPass("renderPass", "frameBuffers[i]", i, WindowExtent) >>
      \o (IF bloomOn
            THEN bloom_sceneDraws
            ELSE SubSeq(bloom_sceneDraws, 1, 2) \o SubSeq(bloom_sceneDraws, 8, 12)
                   \o SubSeq(bloom_sceneDraws, 3, 7))
      \o (IF bloomOn THEN bloom_horizontalBlur ELSE << >>)
      \o << drawUI, vkCmdEndRenderPass, vkEndCommandBuffer >>

\* The body of the loop of buildCommandBuffers: what is recorded into
\* drawCmdBuffers[i], given what the buffer held before.
bloom_recordOne(cmdBuffer, i, bloomOn) ==
    vkBeginCommandBuffer(cmdBuffer)
      \o (IF bloomOn THEN bloom_offscreenPasses ELSE << >>)
      \o << vkCmdBeginRenderPass("renderPass", "frameBuffers[i]", i, WindowExtent) >>
      \o bloom_sceneDraws
      \o (IF bloomOn THEN bloom_horizontalBlur ELSE << >>)
      \o << drawUI, vkCmdEndRenderPass, vkEndCommandBuffer >>

\* ------------------------------------------- shadow mapping: recording
\* Faulty variant: the first pass is not ended.
shadow_offscreenPass_NotEnded(scene) ==
    << vkCmdBeginRenderPass("offscreenPass.renderPass", "offscreenPass.frameBuffer", 0, SHADOWMAP_DIM),
       vkCmdSetViewport(SHADOWMAP_DIM),
       vkCmdSetScissor(SHADOWMAP_DIM),
       vkCmdSetDepthBias,
       vkCmdBindPipeline("pipelines.offscreen"),
       vkCmdBindDescriptorSets("pipelineLayouts.offscreen", "descriptorSets.offscreen"),
       vkCmdBindVertexBuffers("scenes", scene),
       vkCmdBindIndexBuffer("scenes", scene),
       vkCmdDrawIndexed("scenes", scene) >>

\* First pass: the shadow map, the scene rendered from the light's point of view.
shadow_offscreenPass(scene) ==
    << vkCmdBeginRenderPass("offscreenPass.renderPass", "offscreenPass.frameBuffer", 0, SHADOWMAP_DIM),
       vkCmdSetViewport(SHADOWMAP_DIM),
       vkCmdSetScissor(SHADOWMAP_DIM),
       vkCmdSetDepthBias,
       vkCmdBindPipeline("pipelines.offscreen"),
       vkCmdBindDescriptorSets("pipelineLayouts.offscreen", "descriptorSets.offscreen"),
       vkCmdBindVertexBuffers("scenes", scene),
       vkCmdBindIndexBuffer("scenes", scene),
       vkCmdDrawIndexed("scenes", scene),
       vkCmdEndRenderPass >>

\* The quad that visualizes the shadow map.
shadow_debugQuad ==
    << vkCmdBindDescriptorSets("pipelineLayouts.quad", "descriptorSet"),
       vkCmdBindPipeline("pipelines.quad"),
       vkCmdBindVertexBuffers("models.quad", 0),
       vkCmdBindIndexBuffer("models.quad", 0),
       vkCmdDrawIndexed("models.quad", 0) >>

\* The scene with the shadow map applied.
shadow_sceneDraw(scene, pcf) ==
    << vkCmdBindDescriptorSets("pipelineLayouts.quad", "descriptorSets.scene"),
       vkCmdBindPipeline(IF pcf THEN "pipelines.sceneShadowPCF" ELSE "pipelines.sceneShadow"),
       vkCmdBindVertexBuffers("scenes", scene),
       vkCmdBindIndexBuffer("scenes", scene),
       vkCmdDrawIndexed("scenes", scene) >>

\* Faulty variant: the shadow-map pass is recorded after the scene pass.
shadow_recordOne_SceneFirst(cmdBuffer, i, scene, showMap, pcf) ==
    vkBeginCommandBuffer(cmdBuffer)
      \o << vkCmdBeginRenderPass("renderPass", "frameBuffers[i]", i, WindowExtent),
            vkCmdSetViewport(WindowExtent),
            vkCmdSetScissor(WindowExtent) >>
      \o (IF showMap THEN shadow_debugQuad ELSE << >>)
      \o shadow_sceneDraw(scene, pcf)
      \o << drawUI, vkCmdEndRenderPass >>
      \o shadow_offscreenPass(scene)
      \o << vkEndCommandBuffer >>

\* Faulty variant: the UI overlay is drawn before the scene.
shadow_recordOne_OverlayFirst(cmdBuffer, i, scene, showMap, pcf) ==
    vkBeginCommandBuffer(cmdBuffer)
      \o shadow_offscreenPass(scene)
      \o << vkCmdBeginRenderPass("renderPass", "frameBuffers[i]", i, WindowExtent),
            vkCmdSetViewport(WindowExtent),
            vkCmdSetScissor(WindowExtent) >>
      \o (IF showMap THEN shadow_debugQuad ELSE << >>)
      \o << drawUI >>
      \o shadow_sceneDraw(scene, pcf)
      \o << vkCmdEndRenderPass, vkEndCommandBuffer >>

\* The body of the loop of buildCommandBuffers (shadow mapping).
shadow_recordOne(cmdBuffer, i, scene, showMap, pcf) ==
    vkBeginCommandBuffer(cmdBuffer)
      \o shadow_offscreenPass(scene)
      \o << vkCmdBeginRenderPass("renderPass", "frameBuffers[i]", i, WindowExtent),
            vkCmdSetViewport(WindowExtent),
            vkCmdSetScissor(WindowExtent) >>
      \o (IF showMap THEN shadow_debugQuad ELSE << >>)
      \o shadow_sceneDraw(scene, pcf)
      \o << drawUI, vkCmdEndRenderPass, vkEndCommandBuffer >>

\* ------------------------------------------------ PBR basics: recording
\* The GRID_DIM x GRID_DIM grid of objects: per cell the position is pushed
\* to the vertex stage, the material (with the metallic and roughness of the
\* cell) to the fragment stage, and the object is drawn.
pbr_grid(material, object) ==
    [ k \in 1..(3 * GRID_DIM * GRID_DIM) |->
        LET cell == (k - 1) \div 3
            part == (k - 1) % 3
        IN  CASE part = 0 -> vkCmdPushConstants("eVertex", 0, cell)
              [] part = 1 -> vkCmdPushConstants("eFragment", material, cell)
              [] OTHER    -> vkCmdDrawIndexed("models.objects", object) ]

\* The body of the loop of buildCommandBuffers (PBR basics).
pbr_recordOne(cmdBuffer, i, material, object) ==
    vkBeginCommandBuffer(cmdBuffer)
      \o << vkCmdBeginRenderPass("renderPass", "frameBuffers[i]", i, WindowExtent),
            vkCmdSetViewport(WindowExtent),
            vkCmdSetScissor(WindowExtent),
            vkCmdBindPipeline("pipeline"),
            vkCmdBindDescriptorSets("pipelineLayout", "descriptorSet"),
            vkCmdBindVertexBuffers("models.objects", object),
            vkCmdBindIndexBuffer("models.objects", object) >>
      \o pbr_grid(material, object)
      \o << drawUI, vkCmdEndRenderPass, vkEndCommandBuffer >>

\* ------------------------------------ offscreen shadow mapping: recording
\* offscreen.size, set by prepare().
offscreen_size == 2048

\* buildOffscreenCommandBuffer: the previous offscreen command buffer, if
\* any, is handed to trashCommandBuffer and a newly allocated (empty) one is
\* recorded.
offscreen_buildOffscreenCommandBuffer(cmdBuffer) ==
    LET allocated == << >>
    IN  allocated
          \o << Cmd("BeginCommandBuffer", "eSimultaneousUse", "", 0, 0),
                vkCmdSetViewport(offscreen_size),
                vkCmdSetScissor(offscreen_size),
                vkCmdSetDepthBias,
                vkCmdBeginRenderPass("offscreen.renderPass", "offscreen.framebuffers[0]", 0, offscreen_size),
                vkCmdBindPipeline("pipelines.offscreen"),
                vkCmdBindDescriptorSets("pipelineLayouts.offscreen", "descriptorSets.offscreen"),
                vkCmdBindVertexBuffers("meshes.scene", 0),
                vkCmdBindIndexBuffer("meshes.scene", 0),
                vkCmdDrawIndexed("meshes.scene", 0),
                vkCmdEndRenderPass,
                vkEndCommandBuffer >>

\* updateDrawCommandBuffer: what the example records into the draw command
\* buffer the example base hands to it.
offscreen_updateDrawCommandBuffer(cmdBuffer, showMap) ==
    cmdBuffer
      \o << vkCmdSetViewport(WindowExtent),
            vkCmdSetScissor(WindowExtent),
            vkCmdBindDescriptorSets("pipelineLayouts.quad", "descriptorSet"),
            vkCmdBindPipeline("pipelines.quad") >>
      \o (IF showMap
            THEN << vkCmdBindVertexBuffers("meshes.quad", 0),
                    vkCmdBindIndexBuffer("meshes.quad", 0),
                    vkCmdDrawIndexed("meshes.quad", 0) >>
            ELSE << >>)
      \o << vkCmdBindDescriptorSets("pipelineLayouts.quad", "descriptorSets.scene"),
            vkCmdBindPipeline("pipelines.scene"),
            vkCmdBindVertexBuffers("meshes.scene", 0),
            vkCmdBindIndexBuffer("meshes.scene", 0),
            vkCmdDrawIndexed("meshes.scene", 0) >>

Max(S) == CHOOSE x \in S : \A y \in S : y <= x

\* ------------------------------------------------ render pass descriptions
AttachmentDescription(load, store, initial, final, inSubpass) ==
    [ loadOp |-> load, storeOp |-> store, initialLayout |-> initial,
      finalLayout |-> final, layout |-> inSubpass ]

SubpassDependency(src, dst, srcStages, dstStages, srcAccess, dstAccess) ==
    [ srcSubpass |-> src, dstSubpass |-> dst,
      srcStageMask |-> srcStages, dstStageMask |-> dstStages,
      srcAccessMask |-> srcAccess, dstAccessMask |-> dstAccess ]

DescriptorImageInfo(img, layout) == [ image |-> img, imageLayout |-> layout ]

WriteDescriptorSet(bind, kind, res, layout) ==
    [ binding |-> bind, type |-> kind, resource |-> res, imageLayout |-> layout ]

\* An image as created: its usage and extent; no contents, layout undefined.
\* state, frame and visible follow what the device does to it: whether it has
\* been written, in which frame, and whether the write has been made visible
\* to fragment shader reads.  contents are the frames whose rendering the
\* image holds, defined whether it holds anything that can be relied on.
ImageCreate(use, size) ==
    [ usage |-> use, extent |-> size, state |-> "Uninitialized",
      layout |-> "UNDEFINED", frame |-> 0, visible |-> FALSE,
      contents |-> {}, defined |-> FALSE ]

\* The contents of an attachment once the render pass instance of frame f has
\* begun on it: cleared and rendered anew, rendered on top of what was there,
\* or rendered on top of nothing that can be relied on.
Loaded(img, loadOp, f) ==
    CASE loadOp = "CLEAR" -> [img EXCEPT !.contents = {f}, !.defined = TRUE]
      [] loadOp = "LOAD" -> [img EXCEPT !.contents = img.contents \cup {f}]
      [] OTHER -> [img EXCEPT !.contents = {f}, !.defined = FALSE]

\* The contents once the instance has ended: kept only when stored.
Stored(img, storeOp) ==
    IF storeOp = "STORE" THEN img ELSE [img EXCEPT !.defined = FALSE]

\* What offscreenPass, descriptorSets and images hold before prepare().
NoOffscreenPass ==
    [ attachments |-> << >>, dependencies |-> << >>,
      framebuffers |-> [ f \in {} |-> 0 ], width |-> 0 ]

NoDescriptorSets == [ s \in {} |-> {} ]

NoImages == [ t \in {} |-> 0 ]

\* ---------------------------------------------------------- bloom: setup
\* Faulty variant: the color attachment is left in the layout it is rendered in.
bloom_colorAttachment_NoTransition ==
    AttachmentDescription("CLEAR", "STORE", "UNDEFINED",
                          "COLOR_ATTACHMENT_OPTIMAL", "COLOR_ATTACHMENT_OPTIMAL")

\* Faulty variant: the color attachment is not stored when the pass ends.
bloom_colorAttachment_NotStored ==
    AttachmentDescription("CLEAR", "DONT_CARE", "UNDEFINED",
                          "SHADER_READ_ONLY_OPTIMAL", "COLOR_ATTACHMENT_OPTIMAL")

\* attchmentDescriptions[0] and colorReference of prepareOffscreen.
bloom_colorAttachment ==
    AttachmentDescription("CLEAR", "STORE", "UNDEFINED",
                          "SHADER_READ_ONLY_OPTIMAL", "COLOR_ATTACHMENT_OPTIMAL")

\* attchmentDescriptions[1] and depthReference of prepareOffscreen.
bloom_depthAttachment ==
    AttachmentDescription("CLEAR", "DONT_CARE", "UNDEFINED",
                          "DEPTH_STENCIL_ATTACHMENT_OPTIMAL", "DEPTH_STENCIL_ATTACHMENT_OPTIMAL")

\* Faulty variant: the outgoing dependency orders the writes before the end of the
\* pipe only, as the implicit dependency of a render pass does.
bloom_dependencies_NoReaderStage ==
    << SubpassDependency("EXTERNAL", "0", {"FRAGMENT_SHADER"}, {"COLOR_ATTACHMENT_OUTPUT"},
                         {"SHADER_READ"}, {"COLOR_ATTACHMENT_WRITE"}),
       SubpassDependency("0", "EXTERNAL", {"COLOR_ATTACHMENT_OUTPUT"}, {"BOTTOM_OF_PIPE"},
                         {"COLOR_ATTACHMENT_WRITE"}, {}) >>

\* Faulty variant: no dependency towards the commands submitted earlier.
bloom_dependencies_NoIncoming ==
    << SubpassDependency("0", "EXTERNAL", {"COLOR_ATTACHMENT_OUTPUT"}, {"FRAGMENT_SHADER"},
                         {"COLOR_ATTACHMENT_WRITE"}, {"SHADER_READ"}) >>

\* dependencies[0] and dependencies[1] of prepareOffscreen.
bloom_dependencies ==
    << SubpassDependency("EXTERNAL", "0", {"FRAGMENT_SHADER"}, {"COLOR_ATTACHMENT_OUTPUT"},
                         {"SHADER_READ"}, {"COLOR_ATTACHMENT_WRITE"}),
       SubpassDependency("0", "EXTERNAL", {"COLOR_ATTACHMENT_OUTPUT"}, {"FRAGMENT_SHADER"},
                         {"COLOR_ATTACHMENT_WRITE"}, {"SHADER_READ"}) >>

\* prepareOffscreenFramebuffer(&offscreenPass.framebuffers[k], ...): the
\* attachments of the framebuffer and the descriptor filled for sampling it.
bloom_prepareOffscreenFramebuffer(k) ==
    LET color == IF k = 0 THEN "framebuffers[0].color" ELSE "framebuffers[1].color"
        depth == IF k = 0 THEN "framebuffers[0].depth" ELSE "framebuffers[1].depth"
    IN  [ attachments |-> << color, depth >>,
          extent |-> FB_DIM,
          descriptor |-> DescriptorImageInfo(color, "SHADER_READ_ONLY_OPTIMAL") ]

\* offscreenPass after prepareOffscreen.
bloom_prepareOffscreen ==
    [ attachments |-> << bloom_colorAttachment, bloom_depthAttachment >>,
      dependencies |-> bloom_dependencies,
      framebuffers |->
        [ f \in {"offscreenPass.framebuffers[0]", "offscreenPass.framebuffers[1]"} |->
            bloom_prepareOffscreenFramebuffer(IF f = "offscreenPass.framebuffers[0]" THEN 0 ELSE 1) ],
      width |-> FB_DIM ]

\* Faulty variant: the images are created at half the size of the render area.
bloom_images_HalfSize ==
    [ t \in {"framebuffers[0].color", "framebuffers[1].color",
             "framebuffers[0].depth", "framebuffers[1].depth"} |->
        IF t \in {"framebuffers[0].color", "framebuffers[1].color"}
          THEN ImageCreate({"COLOR_ATTACHMENT", "SAMPLED"}, FB_DIM \div 2)
          ELSE ImageCreate({"DEPTH_STENCIL_ATTACHMENT"}, FB_DIM \div 2) ]

\* The images prepareOffscreenFramebuffer creates for the two framebuffers.
bloom_images ==
    [ t \in {"framebuffers[0].color", "framebuffers[1].color",
             "framebuffers[0].depth", "framebuffers[1].depth"} |->
        IF t \in {"framebuffers[0].color", "framebuffers[1].color"}
          THEN ImageCreate({"COLOR_ATTACHMENT", "SAMPLED"}, FB_DIM)
          ELSE ImageCreate({"DEPTH_STENCIL_ATTACHMENT"}, FB_DIM) ]

\* Faulty variant: the vertical blur samples the framebuffer it renders into.
bloom_setupDescriptorSet_Feedback(pass) ==
    [ s \in {"descriptorSets.blurVert", "descriptorSets.blurHorz",
             "descriptorSets.scene", "descriptorSets.skyBox"} |->
        CASE s = "descriptorSets.blurVert" ->
               { WriteDescriptorSet(0, "UniformBuffer", "uniformBuffers.blurParams", ""),
                 WriteDescriptorSet(1, "CombinedImageSampler",
                     pass.framebuffers["offscreenPass.framebuffers[1]"].descriptor.image,
                     pass.framebuffers["offscreenPass.framebuffers[1]"].descriptor.imageLayout) }
          [] s = "descriptorSets.blurHorz" ->
               { WriteDescriptorSet(0, "UniformBuffer", "uniformBuffers.blurParams", ""),
                 WriteDescriptorSet(1, "CombinedImageSampler",
                     pass.framebuffers["offscreenPass.framebuffers[1]"].descriptor.image,
                     pass.framebuffers["offscreenPass.framebuffers[1]"].descriptor.imageLayout) }
          [] s = "descriptorSets.scene" ->
               { WriteDescriptorSet(0, "UniformBuffer", "uniformBuffers.scene", "") }
          [] OTHER ->
               { WriteDescriptorSet(0, "UniformBuffer", "uniformBuffers.skyBox", ""),
                 WriteDescriptorSet(1, "CombinedImageSampler", "textures.cubemap",
                                    "SHADER_READ_ONLY_OPTIMAL") } ]

\* Faulty variant: the horizontal blur samples the glow pass, not the vertical blur.
bloom_setupDescriptorSet_HorzFromGlow(pass) ==
    [ s \in {"descriptorSets.blurVert", "descriptorSets.blurHorz",
             "descriptorSets.scene", "descriptorSets.skyBox"} |->
        CASE s = "descriptorSets.blurVert" ->
               { WriteDescriptorSet(0, "UniformBuffer", "uniformBuffers.blurParams", ""),
                 WriteDescriptorSet(1, "CombinedImageSampler",
                     pass.framebuffers["offscreenPass.framebuffers[0]"].descriptor.image,
                     pass.framebuffers["offscreenPass.framebuffers[0]"].descriptor.imageLayout) }
          [] s = "descriptorSets.blurHorz" ->
               { WriteDescriptorSet(0, "UniformBuffer", "uniformBuffers.blurParams", ""),
                 WriteDescriptorSet(1, "CombinedImageSampler",
                     pass.framebuffers["offscreenPass.framebuffers[0]"].descriptor.image,
                     pass.framebuffers["offscreenPass.framebuffers[0]"].descriptor.imageLayout) }
          [] s = "descriptorSets.scene" ->
               { WriteDescriptorSet(0, "UniformBuffer", "uniformBuffers.scene", "") }
          [] OTHER ->
               { WriteDescriptorSet(0, "UniformBuffer", "uniformBuffers.skyBox", ""),
                 WriteDescriptorSet(1, "CombinedImageSampler", "textures.cubemap",
                                    "SHADER_READ_ONLY_OPTIMAL") } ]

\* preparePipelines fills one create-info and creates the pipelines from it
\* one after the other, changing fields in between: a step << field, value >>
\* assigns a field of pipelineCI, a step << "create", pipeline >> is a
\* vkCreateGraphicsPipelines.  Each pipeline is created with what the fields
\* hold at its step.
CreatePipelines(steps) ==
    LET creates == { k \in DOMAIN steps : steps[k][1] = "create" }
        fields == { steps[k][1] : k \in DOMAIN steps \ creates }
    IN  [ p \in { steps[k][2] : k \in creates } |->
            LET c == CHOOSE k \in creates : steps[k][2] = p
            IN  [ f \in fields |->
                    steps[Max({ j \in 1..c : steps[j][1] = f })][2] ] ]

\* Faulty variant: the render pass is not switched back to the offscreen one
\* before the glow pipeline is created.
bloom_preparePipelines_GlowOnscreen ==
    CreatePipelines(
      << << "layout", "pipelineLayouts.blur" >>, << "renderPass", "renderPass" >>,
         << "layout", "pipelineLayouts.blur" >>,
         << "blurdirection", 0 >>,
         << "renderPass", "offscreenPass.renderPass" >>, << "create", "pipelines.blurVert" >>,
         << "blurdirection", 1 >>,
         << "renderPass", "renderPass" >>, << "create", "pipelines.blurHorz" >>,
         << "layout", "pipelineLayouts.scene" >>,
         << "renderPass", "renderPass" >>, << "create", "pipelines.phongPass" >>,
         << "create", "pipelines.glowPass" >>,
         << "renderPass", "renderPass" >>, << "create", "pipelines.skyBox" >> >>)

\* preparePipelines of the bloom example.  The two blur pipelines share the
\* shaders and differ in the specialization constant blurdirection and in
\* the render pass they are created for; the shaders of the other pipelines
\* do not read the constant.
bloom_preparePipelines ==
    CreatePipelines(
      << << "layout", "pipelineLayouts.blur" >>, << "renderPass", "renderPass" >>,
         << "layout", "pipelineLayouts.blur" >>,
         << "blurdirection", 0 >>,
         << "renderPass", "offscreenPass.renderPass" >>, << "create", "pipelines.blurVert" >>,
         << "blurdirection", 1 >>,
         << "renderPass", "renderPass" >>, << "create", "pipelines.blurHorz" >>,
         << "layout", "pipelineLayouts.scene" >>,
         << "renderPass", "renderPass" >>, << "create", "pipelines.phongPass" >>,
         << "renderPass", "offscreenPass.renderPass" >>, << "create", "pipelines.glowPass" >>,
         << "renderPass", "renderPass" >>, << "create", "pipelines.skyBox" >> >>)

\* preparePipelines of the shadow mapping example.
shadow_preparePipelines ==
    CreatePipelines(
      << << "layout", "pipelineLayouts.quad" >>, << "renderPass", "renderPass" >>,
         << "create", "pipelines.quad" >>,
         << "create", "pipelines.sceneShadow" >>,
         << "create", "pipelines.sceneShadowPCF" >>,
         << "layout", "pipelineLayouts.offscreen" >>,
         << "renderPass", "offscreenPass.renderPass" >>,
         << "create", "pipelines.offscreen" >> >>)

\* setupDescriptorSet: what each descriptor set is written with.
bloom_setupDescriptorSet(pass) ==
    [ s \in {"descriptorSets.blurVert", "descriptorSets.blurHorz",
             "descriptorSets.scene", "descriptorSets.skyBox"} |->
        CASE s = "descriptorSets.blurVert" ->
               { WriteDescriptorSet(0, "UniformBuffer", "uniformBuffers.blurParams", ""),
                 WriteDescriptorSet(1, "CombinedImageSampler",
                     pass.framebuffers["offscreenPass.framebuffers[0]"].descriptor.image,
                     pass.framebuffers["offscreenPass.framebuffers[0]"].descriptor.imageLayout) }
          [] s = "descriptorSets.blurHorz" ->
               { WriteDescriptorSet(0, "UniformBuffer", "uniformBuffers.blurParams", ""),
                 WriteDescriptorSet(1, "CombinedImageSampler",
                     pass.framebuffers["offscreenPass.framebuffers[1]"].descriptor.image,
                     pass.framebuffers["offscreenPass.framebuffers[1]"].descriptor.imageLayout) }
          [] s = "descriptorSets.scene" ->
               { WriteDescriptorSet(0, "UniformBuffer", "uniformBuffers.scene", "") }
          [] OTHER ->
               { WriteDescriptorSet(0, "UniformBuffer", "uniformBuffers.skyBox", ""),
                 WriteDescriptorSet(1, "CombinedImageSampler", "textures.cubemap",
                                    "SHADER_READ_ONLY_OPTIMAL") } ]

\* ------------------------------------------------- shadow mapping: setup
\* attachmentDescription and depthReference of prepareOffscreenRenderpass.
shadow_depthAttachment ==
    AttachmentDescription("CLEAR", "STORE", "UNDEFINED",
                          "DEPTH_STENCIL_READ_ONLY_OPTIMAL", "DEPTH_STENCIL_ATTACHMENT_OPTIMAL")

\* Faulty variant: the shadow-map pass declares no dependency towards later commands.
shadow_dependencies_OnlyIncoming ==
    << SubpassDependency("EXTERNAL", "0", {"FRAGMENT_SHADER"}, {"EARLY_FRAGMENT_TESTS"},
                         {"SHADER_READ"}, {"DEPTH_STENCIL_ATTACHMENT_WRITE"}) >>

\* dependencies[0] and dependencies[1] of prepareOffscreenRenderpass.
shadow_dependencies ==
    << SubpassDependency("EXTERNAL", "0", {"FRAGMENT_SHADER"}, {"EARLY_FRAGMENT_TESTS"},
                         {"SHADER_READ"}, {"DEPTH_STENCIL_ATTACHMENT_WRITE"}),
       SubpassDependency("0", "EXTERNAL", {"LATE_FRAGMENT_TESTS"}, {"FRAGMENT_SHADER"},
                         {"DEPTH_STENCIL_ATTACHMENT_WRITE"}, {"SHADER_READ"}) >>

\* offscreenPass after prepareOffscreenFramebuffer (which calls
\* prepareOffscreenRenderpass).
shadow_prepareOffscreenFramebuffer ==
    [ attachments |-> << shadow_depthAttachment >>,
      dependencies |-> shadow_dependencies,
      framebuffers |->
        [ f \in {"offscreenPass.frameBuffer"} |->
            [ attachments |-> << "offscreenPass.depth" >>,
              extent |-> SHADOWMAP_DIM,
              descriptor |-> DescriptorImageInfo("offscreenPass.depth", "") ] ],
      width |-> SHADOWMAP_DIM ]

\* The depth image prepareOffscreenFramebuffer creates.
shadow_images ==
    [ t \in {"offscreenPass.depth"} |->
        ImageCreate({"DEPTH_STENCIL_ATTACHMENT", "SAMPLED"}, SHADOWMAP_DIM) ]

\* texDescriptor of setupDescriptorSets: the shadow map as it is sampled.
shadow_texDescriptor ==
    DescriptorImageInfo("offscreenPass.depth", "DEPTH_STENCIL_READ_ONLY_OPTIMAL")

\* setupDescriptorSets (shadow mapping).
shadow_setupDescriptorSets ==
    [ s \in {"descriptorSet", "descriptorSets.offscreen", "descriptorSets.scene"} |->
        CASE s = "descriptorSet" ->
               { WriteDescriptorSet(0, "UniformBuffer", "uniformBuffers.debug", ""),
                 WriteDescriptorSet(1, "CombinedImageSampler", shadow_texDescriptor.image,
                                    shadow_texDescriptor.imageLayout) }
          [] s = "descriptorSets.offscreen" ->
               { WriteDescriptorSet(0, "UniformBuffer", "uniformBuffers.offscreen", "") }
          [] OTHER ->
               { WriteDescriptorSet(0, "UniformBuffer", "uniformBuffers.scene", ""),
                 WriteDescriptorSet(1, "CombinedImageSampler", shadow_texDescriptor.image,
                                    shadow_texDescriptor.imageLayout) } ]

\* --------------------------------------- offscreen shadow mapping: setup
\* The settings prepare() hands to the offscreen example base.
offscreen_settings ==
    [ size |-> offscreen_size,
      depthFinalLayout |-> "SHADER_READ_ONLY_OPTIMAL",
      colorFinalLayout |-> "COLOR_ATTACHMENT_OPTIMAL",
      attachmentUsage |-> {},
      depthAttachmentUsage |-> {"SAMPLED"} ]

\* The offscreen pass the example base builds from these settings: one
\* framebuffer with a color and a depth attachment, each left in the final
\* layout the example asked for.
offscreen_OffscreenExampleBase_prepare ==
    [ attachments |->
        << AttachmentDescription("CLEAR", "STORE", "UNDEFINED",
                                 offscreen_settings.colorFinalLayout, "COLOR_ATTACHMENT_OPTIMAL"),
           AttachmentDescription("CLEAR", "STORE", "UNDEFINED",
                                 offscreen_settings.depthFinalLayout,
                                 "DEPTH_STENCIL_ATTACHMENT_OPTIMAL") >>,
      dependencies |-> << >>,
      framebuffers |->
        [ f \in {"offscreen.framebuffers[0]"} |->
            [ attachments |-> << "offscreen.framebuffers[0].color", "offscreen.framebuffers[0].depth" >>,
              extent |-> offscreen_settings.size,
              descriptor |-> DescriptorImageInfo("offscreen.framebuffers[0].depth", "") ] ],
      width |-> offscreen_settings.size ]

\* The images of the framebuffer of the example base.
offscreen_images ==
    [ t \in {"offscreen.framebuffers[0].color", "offscreen.framebuffers[0].depth"} |->
        IF t = "offscreen.framebuffers[0].color"
          THEN ImageCreate({"COLOR_ATTACHMENT"} \cup offscreen_settings.attachmentUsage,
                           offscreen_settings.size)
          ELSE ImageCreate({"DEPTH_STENCIL_ATTACHMENT"} \cup offscreen_settings.depthAttachmentUsage,
                           offscreen_settings.size) ]

\* texDescriptor of setupDescriptorSets (offscreen shadow mapping).
offscreen_texDescriptor ==
    DescriptorImageInfo("offscreen.framebuffers[0].depth", "GENERAL")

\* setupDescriptorSets (offscreen shadow mapping).
offscreen_setupDescriptorSets ==
    [ s \in {"descriptorSet", "descriptorSets.offscreen", "descriptorSets.scene"} |->
        CASE s = "descriptorSet" ->
               { WriteDescriptorSet(0, "UniformBuffer", "uniformDataVS", ""),
                 WriteDescriptorSet(1, "CombinedImageSampler", offscreen_texDescriptor.image,
                                    offscreen_texDescriptor.imageLayout) }
          [] s = "descriptorSets.offscreen" ->
               { WriteDescriptorSet(0, "UniformBuffer", "uniformDataOffscreenVS", "") }
          [] OTHER ->
               { WriteDescriptorSet(0, "UniformBuffer", "uniformData.scene", ""),
                 WriteDescriptorSet(1, "CombinedImageSampler", offscreen_texDescriptor.image,
                                    offscreen_texDescriptor.imageLayout) } ]

\* --------------------------------------------------- PBR basics: setup
\* setupDescriptorSets (PBR basics): two uniform buffers, no image.
pbr_setupDescriptorSets ==
    [ s \in {"descriptorSet"} |->
        { WriteDescriptorSet(0, "UniformBuffer", "uniformBuffers.object", ""),
          WriteDescriptorSet(1, "UniformBuffer", "uniformBuffers.params", "") } ]

\* ------------------------------------------------------------ screenshot
\* The body of the loop of buildCommandBuffers (screenshot).
screenshot_recordOne(cmdBuffer, i) ==
    vkBeginCommandBuffer(cmdBuffer)
      \o << vkCmdBeginRenderPass("renderPass", "frameBuffers[i]", i, WindowExtent),
            vkCmdSetViewport(WindowExtent),
            vkCmdSetScissor(WindowExtent),
            vkCmdBindDescriptorSets("pipelineLayout", "descriptorSet"),
            vkCmdBindPipeline("pipeline"),
            vkCmdBindVertexBuffers("model", 0),
            vkCmdBindIndexBuffer("model", 0),
            vkCmdDrawIndexed("model", 0),
            drawUI,
            vkCmdEndRenderPass,
            vkEndCommandBuffer >>

\* setupDescriptorSet: the only binding is the vertex shader uniform buffer.
screenshot_setupDescriptorSet ==
    [ s \in {"descriptorSet"} |->
        { WriteDescriptorSet(0, "UniformBuffer", "uniformBuffer", "") } ]

\* What a device call returns.
VkResults == {"VK_SUCCESS", "VK_ERROR"}

\* A device call of a handler and whether its result goes through
\* VK_CHECK_RESULT, which ends the process on anything but VK_SUCCESS.
DeviceCall(name, isChecked) == [ call |-> name, checked |-> isChecked ]

\* The device calls of prepare() (screenshot), in the order they are made:
\* prepareUniformBuffers, setupDescriptorSetLayout, preparePipelines,
\* setupDescriptorPool, setupDescriptorSet, buildCommandBuffers.
screenshot_prepareCalls ==
    << DeviceCall("vulkanDevice->createBuffer", FALSE),
       DeviceCall("uniformBuffer.map", TRUE),
       DeviceCall("vkCreateDescriptorSetLayout", TRUE),
       DeviceCall("vkCreatePipelineLayout", TRUE),
       DeviceCall("vkCreateGraphicsPipelines", TRUE),
       DeviceCall("vkCreateDescriptorPool", TRUE),
       DeviceCall("vkAllocateDescriptorSets", TRUE),
       DeviceCall("vkBeginCommandBuffer", TRUE),
       DeviceCall("vkEndCommandBuffer", TRUE) >>

\* The device calls of saveScreenshot, in the order they are made.
screenshot_saveScreenshotCalls ==
    << DeviceCall("vkCreateImage", TRUE),
       DeviceCall("vkAllocateMemory", TRUE),
       DeviceCall("vkBindImageMemory", TRUE),
       DeviceCall("vkMapMemory", FALSE) >>

\* The checked calls that return an error.
Stops(calls, results) ==
    { k \in DOMAIN calls : calls[k].checked /\ results[k] # "VK_SUCCESS" }

\* VK_CHECK_RESULT ends the process at the first of them.
Fatal(calls, results) == Stops(calls, results) # {}

\* The calls the handler gets to make.
Executed(calls, results) ==
    IF Fatal(calls, results)
      THEN 1..(CHOOSE k \in Stops(calls, results) : \A j \in Stops(calls, results) : k <= j)
      ELSE DOMAIN calls

\* The calls made that returned an error.
FailedCalls(calls, results) ==
    { calls[k].call : k \in { j \in Executed(calls, results) : results[j] # "VK_SUCCESS" } }

\* formatsBGR of saveScreenshot.
formatsBGR == {"B8G8R8A8_SRGB", "B8G8R8A8_UNORM", "B8G8R8A8_SNORM"}

\* The surface formats a swapchain is created with.
ColorFormats == formatsBGR \cup {"R8G8B8A8_UNORM"}

\* The format feature flags saveScreenshot looks at.
FormatFeatures == {"BLIT_SRC", "BLIT_DST"}

\* The order of the channels of a texel in memory.
ByteOrder(format) ==
    IF format \in formatsBGR THEN << "B", "G", "R", "A" >> ELSE << "R", "G", "B", "A" >>

\* Faulty variant: one of the two features is taken to be enough.
screenshot_supportsBlit_Either(props) ==
    \/ "BLIT_SRC" \in props.optimalTilingFeatures
    \/ "BLIT_DST" \in props.linearTilingFeatures

\* supportsBlit: the swapchain format is a blit source with optimal tiling
\* and the destination format a blit destination with linear tiling.
screenshot_supportsBlit(props) ==
    /\ "BLIT_SRC" \in props.optimalTilingFeatures
    /\ "BLIT_DST" \in props.linearTilingFeatures

\* colorSwizzle: only looked at when the image was copied, not blitted.
screenshot_colorSwizzle(supportsBlit, colorFormat) ==
    IF ~supportsBlit THEN colorFormat \in formatsBGR ELSE FALSE

\* The commands of the copy command buffer.
TransferCmd(kind, src, srcLayout, dst, dstLayout) ==
    [ op |-> kind, srcImage |-> src, srcImageLayout |-> srcLayout,
      dstImage |-> dst, dstImageLayout |-> dstLayout ]

\* An image memory barrier that takes image from oldLayout to newLayout.
insertImageMemoryBarrier(image, oldLayout, newLayout) ==
    TransferCmd("PipelineBarrier", image, oldLayout, image, newLayout)

vkCmdBlitImage(src, srcLayout, dst, dstLayout) ==
    TransferCmd("BlitImage", src, srcLayout, dst, dstLayout)

vkCmdCopyImage(src, srcLayout, dst, dstLayout) ==
    TransferCmd("CopyImage", src, srcLayout, dst, dstLayout)

\* Faulty variant: the swapchain image is left in the transfer source layout.
screenshot_copyCommands_NoRestore(supportsBlit) ==
    << insertImageMemoryBarrier("dstImage", "UNDEFINED", "TRANSFER_DST_OPTIMAL"),
       insertImageMemoryBarrier("srcImage", "PRESENT_SRC_KHR", "TRANSFER_SRC_OPTIMAL"),
       IF supportsBlit
         THEN vkCmdBlitImage("srcImage", "TRANSFER_SRC_OPTIMAL",
                             "dstImage", "TRANSFER_DST_OPTIMAL")
         ELSE vkCmdCopyImage("srcImage", "TRANSFER_SRC_OPTIMAL",
                             "dstImage", "TRANSFER_DST_OPTIMAL"),
       insertImageMemoryBarrier("dstImage", "TRANSFER_DST_OPTIMAL", "GENERAL") >>

\* What saveScreenshot records into copyCmd.
screenshot_copyCommands(supportsBlit) ==
    << insertImageMemoryBarrier("dstImage", "UNDEFINED", "TRANSFER_DST_OPTIMAL"),
       insertImageMemoryBarrier("srcImage", "PRESENT_SRC_KHR", "TRANSFER_SRC_OPTIMAL"),
       IF supportsBlit
         THEN vkCmdBlitImage("srcImage", "TRANSFER_SRC_OPTIMAL",
                             "dstImage", "TRANSFER_DST_OPTIMAL")
         ELSE vkCmdCopyImage("srcImage", "TRANSFER_SRC_OPTIMAL",
                             "dstImage", "TRANSFER_DST_OPTIMAL"),
       insertImageMemoryBarrier("dstImage", "TRANSFER_DST_OPTIMAL", "GENERAL"),
       insertImageMemoryBarrier("srcImage", "TRANSFER_SRC_OPTIMAL", "PRESENT_SRC_KHR") >>

\* The two images of saveScreenshot: the layout each is in and the channels
\* of a texel of the destination in memory order.  A barrier takes its image
\* to the new layout; a blit converts to the destination format, a copy
\* moves the bytes as they are.
TransferState(srcLayout, dstLayout, texel) ==
    [ srcImage |-> srcLayout, dstImage |-> dstLayout, data |-> texel ]

ExecuteOne(c, st, colorFormat) ==
    CASE c.op = "PipelineBarrier" ->
           IF c.srcImage = "srcImage"
             THEN [st EXCEPT !.srcImage = c.dstImageLayout]
             ELSE [st EXCEPT !.dstImage = c.dstImageLayout]
      [] c.op = "BlitImage" -> [st EXCEPT !.data = ByteOrder("R8G8B8A8_UNORM")]
      [] c.op = "CopyImage" -> [st EXCEPT !.data = ByteOrder(colorFormat)]
      [] OTHER -> st

\* flushCommandBuffer: the state after the first k commands have run.
RECURSIVE Execute(_, _, _, _)
Execute(cmds, k, st, colorFormat) ==
    IF k = 0 THEN st
    ELSE ExecuteOne(cmds[k], Execute(cmds, k - 1, st, colorFormat), colorFormat)

\* The layout a swapchain image is in once it has been presented, and the
\* images saveScreenshot starts from: dstImage is created with
\* VK_IMAGE_LAYOUT_UNDEFINED.
PresentedLayout == "PRESENT_SRC_KHR"

screenshot_onEntry == TransferState(PresentedLayout, "UNDEFINED", << >>)

\* The three bytes written to the file for a texel.
screenshot_writePixel(data, colorSwizzle) ==
    IF colorSwizzle THEN << data[3], data[2], data[1] >> ELSE << data[1], data[2], data[3] >>

\* What screenshot holds before the first saveScreenshot.
NoScreenshot ==
    [ srcImage |-> PresentedLayout, dstImage |-> "UNDEFINED", data |-> << >>,
      colorSwizzle |-> FALSE, ppm |-> << >> ]

\* ------------------------------------------- reading a command sequence
DrawOps == {"Draw", "DrawIndexed"}

RECURSIVE SortedSeq(_)
SortedSeq(S) ==
    IF S = {} THEN << >>
    ELSE LET m == CHOOSE x \in S : \A y \in S : x <= y
         IN  << m >> \o SortedSeq(S \ {m})

\* The positions of the commands `op` in cmds.
Positions(cmds, op) == { j \in 1..Len(cmds) : cmds[j].op = op }

\* The last command `op` before position k (0: none).
LastBefore(cmds, k, op) ==
    LET before == { j \in Positions(cmds, op) : j < k }
    IN  IF before = {} THEN 0 ELSE Max(before)

\* The vkCmdBeginRenderPass of the render pass instance position k lies in
\* (0: k lies in none).
PassBeginAt(cmds, k) ==
    LET b == LastBefore(cmds, k, "BeginRenderPass")
        e == LastBefore(cmds, k, "EndRenderPass")
    IN  IF b > e THEN b ELSE 0

\* The vkCmdEndRenderPass that closes the instance begun at b (0: none).
PassEndOf(cmds, b) ==
    LET after == { j \in Positions(cmds, "EndRenderPass") : j > b }
    IN  IF after = {} THEN 0 ELSE CHOOSE j \in after : \A i \in after : j <= i

\* The descriptor set and the pipeline bound when the command at k executes.
BoundSetAt(cmds, k) ==
    LET j == LastBefore(cmds, k, "BindDescriptorSets")
    IN  IF j = 0 THEN "" ELSE cmds[j].b

BoundPipelineAt(cmds, k) ==
    LET j == LastBefore(cmds, k, "BindPipeline")
    IN  IF j = 0 THEN "" ELSE cmds[j].a

\* The images a descriptor set makes a fragment shader sample.
SampledImages(sets, s) ==
    IF s \in DOMAIN sets
      THEN { w.resource : w \in { x \in sets[s] : x.type = "CombinedImageSampler" } }
      ELSE {}

\* The images a framebuffer of the offscreen pass attaches (none for the
\* framebuffers of the swapchain, which are not offscreen targets).
Range(f) == { f[x] : x \in DOMAIN f }

AttachedImages(pass, fb) ==
    IF fb \in DOMAIN pass.framebuffers THEN Range(pass.framebuffers[fb].attachments) ELSE {}

\* The offscreen images the draw at k samples.
SampledAt(cmds, sets, imgs, k) ==
    SampledImages(sets, BoundSetAt(cmds, k)) \cap DOMAIN imgs

\* The offscreen images the draws of the instance begun at b sample.
SampledInPass(cmds, sets, imgs, b) ==
    UNION { SampledAt(cmds, sets, imgs, k) :
              k \in { d \in 1..Len(cmds) : cmds[d].op \in DrawOps /\ PassBeginAt(cmds, d) = b } }

\* Order-preserving subsequence: s is t with some commands removed.
RECURSIVE IsSubsequence(_, _)
IsSubsequence(s, t) ==
    IF s = << >> THEN TRUE
    ELSE IF t = << >> THEN FALSE
    ELSE IF Head(s) = Head(t) THEN IsSubsequence(Tail(s), Tail(t))
    ELSE IsSubsequence(s, Tail(t))

\* ------------------------------------------------------------- the device
\* The stages of the graphics pipeline, in logical order.
StageOrder ==
    << "TOP_OF_PIPE", "VERTEX_SHADER", "EARLY_FRAGMENT_TESTS", "FRAGMENT_SHADER",
       "LATE_FRAGMENT_TESTS", "COLOR_ATTACHMENT_OUTPUT", "BOTTOM_OF_PIPE" >>

StageRank(s) == CHOOSE i \in DOMAIN StageOrder : StageOrder[i] = s

\* The first synchronization scope of a stage mask: its stages and the
\* logically earlier ones.  The second scope: its stages and the later ones.
EarlierStages(mask) ==
    { s \in Range(StageOrder) : \E m \in mask : StageRank(s) <= StageRank(m) }

LaterStages(mask) ==
    { s \in Range(StageOrder) : \E m \in mask : StageRank(s) >= StageRank(m) }

\* The stage and the access with which a render pass stores an attachment:
\* color attachment output for a color image, the late fragment tests for a
\* depth image.
WriteStage(usage) ==
    IF "COLOR_ATTACHMENT" \in usage THEN "COLOR_ATTACHMENT_OUTPUT" ELSE "LATE_FRAGMENT_TESTS"

WriteAccess(usage) ==
    IF "COLOR_ATTACHMENT" \in usage THEN "COLOR_ATTACHMENT_WRITE"
    ELSE "DEPTH_STENCIL_ATTACHMENT_WRITE"

\* The description of the attachment through which framebuffer fb of the
\* offscreen pass writes image t.
AttachmentOf(pass, fb, t) ==
    pass.attachments[CHOOSE n \in DOMAIN pass.framebuffers[fb].attachments :
                        pass.framebuffers[fb].attachments[n] = t]

\* The render targets: the offscreen images created for sampling.
RenderTargets(imgs) == { t \in DOMAIN imgs : "SAMPLED" \in imgs[t].usage }

\* The render pass instances of a command buffer as the queue runs them.  The
\* device model follows the accesses to the render targets: an instance
\* samples (reads) in its fragment shader stage and writes the render targets
\* among its attachments in their write stage.  A stage with nothing to do is
\* done from the start.
PassesOf(cmds, pass, sets, imgs, frameNo) ==
    LET begins == SortedSeq(Positions(cmds, "BeginRenderPass"))
    IN  [ n \in 1..Len(begins) |->
            LET b == begins[n]
                w == AttachedImages(pass, cmds[b].b) \cap RenderTargets(imgs)
                r == SampledInPass(cmds, sets, imgs, b)
            IN  [ frame |-> frameNo,
                  fb |-> cmds[b].b,
                  offscreen |-> cmds[b].b \in DOMAIN pass.framebuffers,
                  writes |-> w,
                  reads |-> r,
                  fs |-> IF r = {} THEN "done" ELSE "idle",
                  out |-> IF w = {} THEN "done" ELSE "idle" ] ]

\* ------------------------------------------------- light of the offscreen example
\* updateLight: the light source on its orbit; cos and sin of timer * 360
\* degrees, the timer counted in quarter turns.
updateLight(timer) ==
    LET cos == CASE timer % 4 = 0 -> 1 [] timer % 4 = 2 -> -1 [] OTHER -> 0
        sin == CASE timer % 4 = 1 -> 1 [] timer % 4 = 3 -> -1 [] OTHER -> 0
    IN  [ x |-> cos * 40, y |-> (-50) + sin * 20, z |-> 25 + sin * 5 ]

\* updateUniformBufferOffscreen and updateUniformBuffers: the scene is seen
\* from the camera, from the light when lightPOV is set; depthMVP always
\* looks from the light.
offscreen_updateUniformBuffers(pos, pov) ==
    [ lightPos |-> pos,
      view |-> IF pov THEN << "lookAt", pos >> ELSE << "camera.matrices.view" >>,
      depthBiasMVP |-> << "lookAt", pos >> ]

NoUniformData == [ lightPos |-> [ x |-> 0, y |-> 0, z |-> 0 ], view |-> << >>, depthBiasMVP |-> << >> ]

\* ------------------------------------------------------------------ state
VARIABLES
    example,            \* which of the examples runs
    prepared,           \* VulkanExample::prepared
    destroyed,          \* ~VulkanExample has run
    bloom,              \* bloom example: bool bloom
    displayShadowMap,   \* shadow mapping examples: bool displayShadowMap
    filterPCF,          \* shadow mapping: bool filterPCF
    sceneIndex,         \* shadow mapping: int32_t sceneIndex
    lightPOV,           \* offscreen shadow mapping: bool lightPOV
    materialIndex,      \* PBR basics: int32_t materialIndex
    objectIndex,        \* PBR basics: models.objectIndex
    drawCmdBuffers,     \* the commands recorded in each draw command buffer
    offscreenCmdBuffer, \* offscreen shadow mapping: offscreen.cmdBuffer
    offscreenPass,      \* the offscreen render pass and its framebuffers
    descriptorSets,     \* what each descriptor set has been written with
    images,             \* the offscreen images
    queue,              \* render pass instances submitted and not yet complete
    frameCounter,       \* frames submitted so far
    currentBuffer,      \* the swapchain image of the last frame
    recordings,         \* recordings of the draw command buffers so far
    setupOrder,         \* the functions prepare() has called, in order
    process,            \* "running", or how the process ended
    failed,             \* the device calls that have returned an error
    swapChainColorFormat, \* swapChain.colorFormat
    formatProperties,   \* what vkGetPhysicalDeviceFormatProperties reports
    screenshotSaved,    \* screenshot example: bool screenshotSaved
    copyCmd,            \* the commands of the last screenshot copy command buffer
    screenshot,         \* what the last saveScreenshot left behind
    paused,             \* offscreen shadow mapping: bool paused of the example base
    lightPos,           \* offscreen shadow mapping: glm::vec3 lightPos
    uniformData,        \* offscreen shadow mapping: what uniformData.scene holds
    lastKey,            \* the key pressed last, the flags and the commands before it
    semaphores,         \* vkx::Compute: the state of semaphores.ready and .complete
    computeQueue,       \* vkx::Compute: the batches submitted to queue, in order
    signals,            \* signal operations on each semaphore so far
    waits               \* wait operations on each semaphore so far

vars ==
    << example, prepared, destroyed, bloom, displayShadowMap, filterPCF, sceneIndex,
       lightPOV, materialIndex, objectIndex, drawCmdBuffers, offscreenCmdBuffer,
       offscreenPass, descriptorSets, images, queue, frameCounter, currentBuffer,
       recordings, setupOrder, process, failed, swapChainColorFormat, formatProperties,
       screenshotSaved, copyCmd, screenshot, paused, lightPos, uniformData, lastKey,
       semaphores, computeQueue, signals, waits >>

\* The state of vkx::Compute.
comp == << semaphores, computeQueue, signals, waits >>

anim == << paused, lightPos, uniformData, lastKey >>

shot == << swapChainColorFormat, formatProperties, screenshotSaved, copyCmd, screenshot >>

flags == << bloom, displayShadowMap, filterPCF, sceneIndex, lightPOV, materialIndex, objectIndex >>

resources == << offscreenPass, descriptorSets, images >>

Buffers == 0..(SwapchainImages - 1)

\* No key has been pressed yet.
NoKey ==
    [ key |-> "", prev |-> "", n |-> 0, displayShadowMap |-> FALSE, lightPOV |-> FALSE, paused |-> FALSE,
      drawCmdBuffers |-> [ i \in Buffers |-> << >> ] ]

Min(a, b) == IF a < b THEN a ELSE b

\* buildCommandBuffers: the loop over drawCmdBuffers.
bloom_buildCommandBuffers(bufs, bloomOn) ==
    [ i \in Buffers |-> bloom_recordOne(bufs[i], i, bloomOn) ]

shadow_buildCommandBuffers(bufs, scene, showMap, pcf) ==
    [ i \in Buffers |-> shadow_recordOne(bufs[i], i, scene, showMap, pcf) ]

pbr_buildCommandBuffers(bufs, material, object) ==
    [ i \in Buffers |-> pbr_recordOne(bufs[i], i, material, object) ]

\* updateDrawCommandBuffers of the example base: each draw command buffer is
\* begun anew, the render pass on the swapchain framebuffer is begun,
\* updateDrawCommandBuffer records the draws of the example, the UI overlay
\* is drawn after them and the pass and the buffer are ended.
offscreen_updateDrawCommandBuffers(bufs, showMap) ==
    [ i \in Buffers |->
        offscreen_updateDrawCommandBuffer(
            vkBeginCommandBuffer(bufs[i])
              \o << vkCmdBeginRenderPass("renderPass", "frameBuffers[i]", i, WindowExtent) >>,
            showMap)
          \o << drawUI, vkCmdEndRenderPass, vkEndCommandBuffer >> ]

screenshot_buildCommandBuffers(bufs) ==
    [ i \in Buffers |-> screenshot_recordOne(bufs[i], i) ]

Init ==
    /\ example \in Examples
    /\ prepared = FALSE
    /\ destroyed = FALSE
    /\ bloom = TRUE
    /\ displayShadowMap = FALSE
    /\ filterPCF = TRUE
    /\ sceneIndex = 0
    /\ lightPOV = FALSE
    /\ materialIndex = 0
    /\ objectIndex = 0
    /\ drawCmdBuffers = [ i \in Buffers |-> << >> ]
    /\ offscreenCmdBuffer = << >>
    /\ offscreenPass = NoOffscreenPass
    /\ descriptorSets = NoDescriptorSets
    /\ images = NoImages
    /\ queue = << >>
    /\ frameCounter = 0
    /\ currentBuffer = 0
    /\ recordings = 0
    /\ setupOrder = << >>
    /\ process = "running"
    /\ failed = {}
    /\ swapChainColorFormat \in
         (IF example = "screenshot" THEN ColorFormats ELSE {"B8G8R8A8_UNORM"})
    /\ formatProperties \in
         (IF example = "screenshot"
            THEN [ optimalTilingFeatures : { FormatFeatures \ {"BLIT_SRC"}, FormatFeatures },
                   linearTilingFeatures : { FormatFeatures \ {"BLIT_DST"}, FormatFeatures } ]
            ELSE { [ optimalTilingFeatures |-> FormatFeatures,
                     linearTilingFeatures |-> FormatFeatures ] })
    /\ screenshotSaved = FALSE
    /\ copyCmd = << >>
    /\ screenshot = NoScreenshot
    /\ paused = FALSE
    /\ lightPos = [ x |-> 0, y |-> 0, z |-> 0 ]
    /\ uniformData = NoUniformData
    /\ lastKey = NoKey
    /\ semaphores = [ ready |-> "null", complete |-> "null" ]
    /\ computeQueue = << >>
    /\ signals = [ ready |-> 0, complete |-> 0 ]
    /\ waits = [ ready |-> 0, complete |-> 0 ]

\* ---------------------------------------------------------------- prepare
RecordedTimes(n) == Min(recordings + n, MaxRecordings)

Recorded == RecordedTimes(1)

\* The functions prepare() calls, in the order it calls them.
\* Faulty variant: the pipelines are created before the render pass they name.
bloom_prepareSteps_PipelinesFirst ==
    << "VulkanExampleBase::prepare", "prepareUniformBuffers", "setupDescriptorSetLayout",
       "preparePipelines", "prepareOffscreen", "setupDescriptorPool", "setupDescriptorSet",
       "buildCommandBuffers" >>

bloom_prepareSteps ==
    << "VulkanExampleBase::prepare", "prepareUniformBuffers", "prepareOffscreen",
       "setupDescriptorSetLayout", "preparePipelines", "setupDescriptorPool",
       "setupDescriptorSet", "buildCommandBuffers" >>

shadow_prepareSteps ==
    << "VulkanExampleBase::prepare", "generateQuad", "prepareOffscreenFramebuffer",
       "prepareUniformBuffers", "setupDescriptorSetLayout", "preparePipelines",
       "setupDescriptorPool", "setupDescriptorSets", "buildCommandBuffers" >>

offscreen_prepareSteps ==
    << "OffscreenExampleBase::prepare", "generateQuad", "loadMeshes",
       "setupVertexDescriptions", "prepareUniformBuffers", "setupDescriptorSetLayout",
       "preparePipelines", "setupDescriptorPool", "setupDescriptorSets",
       "updateDrawCommandBuffers", "buildOffscreenCommandBuffer" >>

pbr_prepareSteps ==
    << "VulkanExampleBase::prepare", "prepareUniformBuffers", "setupDescriptorSetLayout",
       "preparePipelines", "setupDescriptorSets", "buildCommandBuffers" >>

screenshot_prepareSteps ==
    << "VulkanExampleBase::prepare", "prepareUniformBuffers", "setupDescriptorSetLayout",
       "preparePipelines", "setupDescriptorPool", "setupDescriptorSet",
       "buildCommandBuffers" >>

\* prepare() of the bloom example: prepareOffscreen, setupDescriptorSet,
\* buildCommandBuffers.
bloom_prepare ==
    /\ example = "bloom" /\ ~prepared /\ ~destroyed
    /\ offscreenPass' = bloom_prepareOffscreen
    /\ images' = bloom_images
    /\ descriptorSets' = bloom_setupDescriptorSet(bloom_prepareOffscreen)
    /\ drawCmdBuffers' = bloom_buildCommandBuffers(drawCmdBuffers, bloom)
    /\ recordings' = Recorded
    /\ prepared' = TRUE
    /\ setupOrder' = bloom_prepareSteps
    /\ UNCHANGED << example, comp, anim, process, failed, shot, destroyed, flags, offscreenCmdBuffer, queue, frameCounter,
                    currentBuffer >>

\* prepare() of the shadow mapping example.
shadow_prepare ==
    /\ example = "shadowmapping" /\ ~prepared /\ ~destroyed
    /\ offscreenPass' = shadow_prepareOffscreenFramebuffer
    /\ images' = shadow_images
    /\ descriptorSets' = shadow_setupDescriptorSets
    /\ drawCmdBuffers' =
         shadow_buildCommandBuffers(drawCmdBuffers, sceneIndex, displayShadowMap, filterPCF)
    /\ recordings' = Recorded
    /\ prepared' = TRUE
    /\ setupOrder' = shadow_prepareSteps
    /\ UNCHANGED << example, comp, anim, process, failed, shot, destroyed, flags, offscreenCmdBuffer, queue, frameCounter,
                    currentBuffer >>

\* prepare() of the offscreen shadow mapping example.
offscreen_prepare ==
    /\ example = "offscreen" /\ ~prepared /\ ~destroyed
    /\ offscreenPass' = offscreen_OffscreenExampleBase_prepare
    /\ images' = offscreen_images
    /\ descriptorSets' = offscreen_setupDescriptorSets
    /\ drawCmdBuffers' = offscreen_updateDrawCommandBuffers(drawCmdBuffers, displayShadowMap)
    /\ offscreenCmdBuffer' = offscreen_buildOffscreenCommandBuffer(offscreenCmdBuffer)
    /\ recordings' = Recorded
    /\ prepared' = TRUE
    /\ setupOrder' = offscreen_prepareSteps
    /\ \E timer \in 0..(TimerSteps - 1) :
         /\ lightPos' = updateLight(timer)
         /\ uniformData' = offscreen_updateUniformBuffers(lightPos', lightPOV)
    /\ UNCHANGED << example, comp, paused, lastKey, process, failed, shot, destroyed, flags, queue, frameCounter, currentBuffer >>

\* prepare() of the PBR example.
pbr_prepare ==
    /\ example = "pbrbasic" /\ ~prepared /\ ~destroyed
    /\ descriptorSets' = pbr_setupDescriptorSets
    /\ drawCmdBuffers' = pbr_buildCommandBuffers(drawCmdBuffers, materialIndex, objectIndex)
    /\ recordings' = Recorded
    /\ prepared' = TRUE
    /\ setupOrder' = pbr_prepareSteps
    /\ UNCHANGED << example, comp, anim, process, failed, shot, destroyed, flags, offscreenCmdBuffer, offscreenPass, images,
                    queue, frameCounter, currentBuffer >>

\* prepare() of the screenshot example.  The result of createBuffer is
\* dropped, every other call is under VK_CHECK_RESULT; when that ends the
\* process nothing of what was set up is left to look at.
screenshot_prepare ==
    /\ example = "screenshot" /\ ~prepared /\ ~destroyed /\ process = "running"
    /\ \E results \in [DOMAIN screenshot_prepareCalls -> VkResults] :
         /\ failed' = failed \cup FailedCalls(screenshot_prepareCalls, results)
         /\ IF Fatal(screenshot_prepareCalls, results)
              THEN /\ process' = "exited"
                   /\ UNCHANGED << prepared, descriptorSets, drawCmdBuffers, recordings,
                                   setupOrder >>
              ELSE /\ process' = process
                   /\ descriptorSets' = screenshot_setupDescriptorSet
                   /\ drawCmdBuffers' = screenshot_buildCommandBuffers(drawCmdBuffers)
                   /\ recordings' = Recorded
                   /\ prepared' = TRUE
                   /\ setupOrder' = screenshot_prepareSteps
    /\ UNCHANGED << example, comp, anim, shot, destroyed, flags, offscreenCmdBuffer,
                    offscreenPass, images, queue, frameCounter, currentBuffer >>

\* ----------------------------------------------------------------- render
\* The instances of a submission that have something left to do.
Pending(passes) == SelectSeq(passes, LAMBDA p : ~(p.fs = "done" /\ p.out = "done"))

InFlight == Cardinality({ queue[j].frame : j \in DOMAIN queue })

\* render() -> draw(): prepareFrame acquires a swapchain image,
\* drawCmdBuffers[currentBuffer] is submitted to the queue, submitFrame
\* presents.  Nothing but the queue orders the submission against the frames
\* still in flight.
draw ==
    /\ prepared /\ ~destroyed /\ process = "running"
    /\ example \in {"bloom", "shadowmapping", "pbrbasic", "screenshot"}
    /\ frameCounter < MaxFrames
    /\ InFlight < MaxInFlight
    /\ \E i \in Buffers :
         /\ currentBuffer' = i
         /\ queue' = queue \o Pending(PassesOf(drawCmdBuffers[i], offscreenPass, descriptorSets,
                                               images, frameCounter + 1))
    /\ frameCounter' = frameCounter + 1
    /\ UNCHANGED << example, comp, anim, setupOrder, process, failed, shot, prepared, destroyed, flags, drawCmdBuffers, offscreenCmdBuffer,
                    resources, recordings >>

\* ----------------------------------------------------------- device steps
\* The subpass dependencies that stand between an earlier instance q and a
\* later instance p: those q declares towards later commands and those p
\* declares towards earlier ones.  The render pass of the swapchain
\* framebuffers is the example base's; its instances add none.
DepsBetween(q, p) ==
    { d \in Range(offscreenPass.dependencies) :
        \/ q.offscreen /\ d.srcSubpass = "0" /\ d.dstSubpass = "EXTERNAL"
        \/ p.offscreen /\ d.srcSubpass = "EXTERNAL" /\ d.dstSubpass = "0" }

\* Stage s of p may not start before stage t of q has completed.
Ordered(q, t, p, s) ==
    \E d \in DepsBetween(q, p) :
        t \in EarlierStages(d.srcStageMask) /\ s \in LaterStages(d.dstStageMask)

OutStages(p) == { WriteStage(images[t].usage) : t \in p.writes }

\* What stage s of queue[i] has to wait for.
Blocked(i, s) ==
    \E j \in 1..(i - 1) :
        \/ queue[j].fs # "done" /\ Ordered(queue[j], "FRAGMENT_SHADER", queue[i], s)
        \/ queue[j].out # "done" /\ \E t \in OutStages(queue[j]) : Ordered(queue[j], t, queue[i], s)

\* The writes of p are made visible to the fragment shader reads of later
\* commands by a dependency whose access masks cover both.
MadeVisible(p, t) ==
    \E d \in Range(offscreenPass.dependencies) :
        /\ p.offscreen /\ d.srcSubpass = "0" /\ d.dstSubpass = "EXTERNAL"
        /\ WriteStage(images[t].usage) \in EarlierStages(d.srcStageMask)
        /\ WriteAccess(images[t].usage) \in d.srcAccessMask
        /\ "FRAGMENT_SHADER" \in LaterStages(d.dstStageMask)
        /\ "SHADER_READ" \in d.dstAccessMask

DeviceUnchanged ==
    UNCHANGED << example, comp, anim, setupOrder, process, failed, shot, prepared, destroyed, flags, drawCmdBuffers, offscreenCmdBuffer,
                 offscreenPass, descriptorSets, frameCounter, currentBuffer, recordings >>

\* The fragment shader stage of an instance starts sampling.
FsStart ==
    \E i \in DOMAIN queue :
        /\ queue[i].fs = "idle"
        /\ ~Blocked(i, "FRAGMENT_SHADER")
        /\ queue' = [queue EXCEPT ![i].fs = "run"]
        /\ UNCHANGED images
        /\ DeviceUnchanged

\* The fragment shader stage of an instance has finished.
FsEnd ==
    \E i \in DOMAIN queue :
        /\ queue[i].fs = "run"
        /\ queue' = Pending([queue EXCEPT ![i].fs = "done"])
        /\ UNCHANGED images
        /\ DeviceUnchanged

\* An instance starts writing its attachments: they go from their initial
\* layout to the layout of the subpass and are cleared.
OutStart ==
    \E i \in DOMAIN queue :
        /\ queue[i].out = "idle"
        /\ \A s \in OutStages(queue[i]) : ~Blocked(i, s)
        /\ queue' = [queue EXCEPT ![i].out = "run"]
        /\ images' =
             [ t \in DOMAIN images |->
                 IF t \in queue[i].writes
                   THEN [Loaded(images[t], AttachmentOf(offscreenPass, queue[i].fb, t).loadOp,
                                queue[i].frame)
                           EXCEPT
                           !.state = "Written",
                           !.layout = AttachmentOf(offscreenPass, queue[i].fb, t).layout,
                           !.frame = queue[i].frame,
                           !.visible = FALSE]
                   ELSE images[t] ]
        /\ DeviceUnchanged

\* The writes of an instance have completed (its fragment shader stage is
\* done): the attachments are stored and go to their final layout.
OutEnd ==
    \E i \in DOMAIN queue :
        /\ queue[i].out = "run"
        /\ queue[i].fs = "done"
        /\ queue' = Pending([queue EXCEPT ![i].out = "done"])
        /\ images' =
             [ t \in DOMAIN images |->
                 IF t \in queue[i].writes
                   THEN [Stored(images[t], AttachmentOf(offscreenPass, queue[i].fb, t).storeOp)
                           EXCEPT
                           !.state = "Readable",
                           !.layout = AttachmentOf(offscreenPass, queue[i].fb, t).finalLayout,
                           !.visible = MadeVisible(queue[i], t)]
                   ELSE images[t] ]
        /\ DeviceUnchanged

\* ------------------------------------------------------------ UI and keys
\* Faulty variant: the check box flips the flag and nothing is recorded.
bloom_OnUpdateUIOverlay_NoRebuild ==
    /\ example = "bloom" /\ prepared /\ ~destroyed
    /\ bloom' = ~bloom
    /\ UNCHANGED << example, comp, anim, setupOrder, process, failed, shot, prepared, destroyed,
                    displayShadowMap, filterPCF, sceneIndex, lightPOV, materialIndex,
                    objectIndex, drawCmdBuffers, recordings, offscreenCmdBuffer, resources,
                    queue, frameCounter, currentBuffer >>

\* OnUpdateUIOverlay of the bloom example: the "Bloom" check box was clicked.
bloom_OnUpdateUIOverlay ==
    /\ example = "bloom" /\ prepared /\ ~destroyed
    /\ bloom' = ~bloom
    /\ drawCmdBuffers' = bloom_buildCommandBuffers(drawCmdBuffers, bloom')
    /\ recordings' = Recorded
    /\ UNCHANGED << example, comp, anim, setupOrder, process, failed, shot, prepared, destroyed, displayShadowMap, filterPCF, sceneIndex,
                    lightPOV, materialIndex, objectIndex, offscreenCmdBuffer, resources, queue,
                    frameCounter, currentBuffer >>

\* OnUpdateUIOverlay of the shadow mapping example: the combo box picks a
\* scene, the check boxes flip displayShadowMap and filterPCF; each widget
\* that changed calls buildCommandBuffers.
shadow_OnUpdateUIOverlay ==
    /\ example = "shadowmapping" /\ prepared /\ ~destroyed
    /\ \E scene \in 0..(NumScenes - 1), display \in BOOLEAN, pcf \in BOOLEAN :
         /\ << scene, display, pcf >> # << sceneIndex, displayShadowMap, filterPCF >>
         /\ sceneIndex' = scene
         /\ displayShadowMap' = display
         /\ filterPCF' = pcf
         /\ LET afterScene ==
                  IF scene # sceneIndex
                    THEN shadow_buildCommandBuffers(drawCmdBuffers, scene, displayShadowMap,
                                                    filterPCF)
                    ELSE drawCmdBuffers
                afterDisplay ==
                  IF display # displayShadowMap
                    THEN shadow_buildCommandBuffers(afterScene, scene, display, filterPCF)
                    ELSE afterScene
            IN  drawCmdBuffers' =
                  IF pcf # filterPCF
                    THEN shadow_buildCommandBuffers(afterDisplay, scene, display, pcf)
                    ELSE afterDisplay
         /\ recordings' = RecordedTimes((IF scene # sceneIndex THEN 1 ELSE 0)
                                          + (IF display # displayShadowMap THEN 1 ELSE 0)
                                          + (IF pcf # filterPCF THEN 1 ELSE 0))
    /\ UNCHANGED << example, comp, anim, setupOrder, process, failed, shot, prepared, destroyed, bloom, lightPOV, materialIndex, objectIndex,
                    offscreenCmdBuffer, resources, queue, frameCounter, currentBuffer >>

\* OnUpdateUIOverlay of the PBR example: the combo boxes pick a material and
\* an object type; each one that changed calls buildCommandBuffers.
pbr_OnUpdateUIOverlay ==
    /\ example = "pbrbasic" /\ prepared /\ ~destroyed
    /\ \E material \in 0..(NumMaterials - 1), object \in 0..(NumObjects - 1) :
         /\ << material, object >> # << materialIndex, objectIndex >>
         /\ materialIndex' = material
         /\ objectIndex' = object
         /\ LET afterMaterial ==
                  IF material # materialIndex
                    THEN pbr_buildCommandBuffers(drawCmdBuffers, material, objectIndex)
                    ELSE drawCmdBuffers
            IN  drawCmdBuffers' =
                  IF object # objectIndex
                    THEN pbr_buildCommandBuffers(afterMaterial, material, object)
                    ELSE afterMaterial
         /\ recordings' = RecordedTimes((IF material # materialIndex THEN 1 ELSE 0)
                                          + (IF object # objectIndex THEN 1 ELSE 0))
    /\ UNCHANGED << example, comp, anim, setupOrder, process, failed, shot, prepared, destroyed, bloom, displayShadowMap, filterPCF,
                    sceneIndex, lightPOV, offscreenCmdBuffer, resources, queue, frameCounter,
                    currentBuffer >>

\* What a key press finds: the key, the key before it, the flags and the
\* recorded commands; n tells one press from the next.
KeyPress(key) ==
    [ key |-> key, prev |-> lastKey.key, n |-> 1 - lastKey.n,
      displayShadowMap |-> displayShadowMap, lightPOV |-> lightPOV,
      paused |-> paused, drawCmdBuffers |-> drawCmdBuffers ]

\* keyPressed(GLFW_KEY_S) -> toggleShadowMapDisplay.
offscreen_toggleShadowMapDisplay ==
    /\ example = "offscreen" /\ prepared /\ ~destroyed
    /\ displayShadowMap' = ~displayShadowMap
    /\ drawCmdBuffers' = offscreen_updateDrawCommandBuffers(drawCmdBuffers, displayShadowMap')
    /\ recordings' = Recorded
    /\ lastKey' = KeyPress("GLFW_KEY_S")
    /\ UNCHANGED << example, comp, paused, lightPos, uniformData, setupOrder, process, failed, shot,
                    prepared, destroyed, bloom, filterPCF, sceneIndex, lightPOV,
                    materialIndex, objectIndex, offscreenCmdBuffer, resources, queue,
                    frameCounter, currentBuffer >>

\* Faulty variant: the light's point of view and the display of the shadow
\* map hang on the same key.
offscreen_toogleLightPOV_AlsoMap ==
    /\ example = "offscreen" /\ prepared /\ ~destroyed
    /\ lightPOV' = ~lightPOV
    /\ displayShadowMap' = ~displayShadowMap
    /\ uniformData' = offscreen_updateUniformBuffers(lightPos, lightPOV')
    /\ lastKey' = KeyPress("GLFW_KEY_L")
    /\ UNCHANGED << example, comp, paused, lightPos, setupOrder, process, failed, shot, prepared,
                    destroyed, bloom, filterPCF, sceneIndex, materialIndex,
                    objectIndex, drawCmdBuffers, offscreenCmdBuffer, resources, queue,
                    frameCounter, currentBuffer, recordings >>

\* keyPressed(GLFW_KEY_L) -> toogleLightPOV -> viewChanged: the flag flips
\* and the uniform buffers are written anew; nothing is recorded.
offscreen_toogleLightPOV ==
    /\ example = "offscreen" /\ prepared /\ ~destroyed
    /\ lightPOV' = ~lightPOV
    /\ uniformData' = offscreen_updateUniformBuffers(lightPos, lightPOV')
    /\ lastKey' = KeyPress("GLFW_KEY_L")
    /\ UNCHANGED << example, comp, paused, lightPos, setupOrder, process, failed, shot, prepared,
                    destroyed, bloom, displayShadowMap, filterPCF, sceneIndex, materialIndex,
                    objectIndex, drawCmdBuffers, offscreenCmdBuffer, resources, queue,
                    frameCounter, currentBuffer, recordings >>

\* GLFW_KEY_P: the example base flips paused before it hands the key to
\* keyPressed, whose switch has no case for it.
offscreen_togglePaused ==
    /\ example = "offscreen" /\ prepared /\ ~destroyed
    /\ paused' = ~paused
    /\ lastKey' = KeyPress("GLFW_KEY_P")
    /\ UNCHANGED << example, comp, lightPos, uniformData, setupOrder, process, failed, shot,
                    prepared, destroyed, flags, drawCmdBuffers, offscreenCmdBuffer,
                    resources, queue, frameCounter, currentBuffer, recordings >>

\* update(deltaTime): Parent::update moves the timer on; unless paused the
\* light is moved to where the timer puts it and the uniform buffers are
\* written anew.
offscreen_update ==
    /\ example = "offscreen" /\ prepared /\ ~destroyed
    /\ \E timer \in 0..(TimerSteps - 1) :
         IF ~paused
           THEN /\ lightPos' = updateLight(timer)
                /\ uniformData' = offscreen_updateUniformBuffers(lightPos', lightPOV)
           ELSE UNCHANGED << lightPos, uniformData >>
    /\ UNCHANGED << example, comp, paused, lastKey, setupOrder, process, failed, shot, prepared,
                    destroyed, flags, drawCmdBuffers, offscreenCmdBuffer, resources, queue,
                    frameCounter, currentBuffer, recordings >>

\* OnUpdateUIOverlay of the screenshot example: the "Take screenshot" button
\* was clicked -> saveScreenshot.  The overlay is up, so a frame has been
\* presented and swapChain.images[currentBuffer] is the image last presented.
\* The result of vkMapMemory is dropped: when it fails, data is read
\* uninitialised, and the process either dies on the read or writes
\* whatever it finds.
screenshot_saveScreenshot ==
    /\ example = "screenshot" /\ prepared /\ ~destroyed /\ process = "running"
    /\ frameCounter > 0
    /\ \E results \in [DOMAIN screenshot_saveScreenshotCalls -> VkResults],
          undefinedRead \in {"crash", "garbage"} :
         LET supportsBlit == screenshot_supportsBlit(formatProperties)
             cmds == screenshot_copyCommands(supportsBlit)
             after == Execute(cmds, Len(cmds), screenshot_onEntry, swapChainColorFormat)
             colorSwizzle == screenshot_colorSwizzle(supportsBlit, swapChainColorFormat)
             mapped == results[4] = "VK_SUCCESS"
             data == IF mapped THEN after.data ELSE << "?", "?", "?", "?" >>
             written == ~mapped => undefinedRead = "garbage"
         IN  /\ failed' = failed \cup FailedCalls(screenshot_saveScreenshotCalls, results)
             /\ IF Fatal(screenshot_saveScreenshotCalls, results)
                  THEN /\ process' = "exited"
                       /\ screenshotSaved' = FALSE
                       /\ UNCHANGED << copyCmd, screenshot >>
                  ELSE /\ process' = IF written THEN process ELSE "crashed"
                       /\ copyCmd' = cmds
                       /\ screenshot' =
                            [ srcImage |-> after.srcImage, dstImage |-> after.dstImage,
                              data |-> data, colorSwizzle |-> colorSwizzle,
                              ppm |-> IF written
                                        THEN screenshot_writePixel(data, colorSwizzle)
                                        ELSE << >> ]
                       /\ screenshotSaved' = written
    /\ UNCHANGED << example, comp, anim, prepared, destroyed, flags, drawCmdBuffers, offscreenCmdBuffer,
                    resources, queue, frameCounter, currentBuffer, recordings, setupOrder,
                    swapChainColorFormat, formatProperties >>

\* --------------------------------------------------------------- shutdown
\* ~VulkanExample: once the device is idle the offscreen images, their
\* framebuffers and the render pass are destroyed.
VulkanExample_destructor ==
    /\ ~destroyed /\ process = "running"
    /\ queue = << >>
    /\ destroyed' = TRUE
    /\ images' = [ t \in DOMAIN images |-> [images[t] EXCEPT !.state = "Destroyed"] ]
    /\ UNCHANGED << example, comp, anim, setupOrder, process, failed, shot, prepared, flags, drawCmdBuffers, offscreenCmdBuffer,
                    offscreenPass, descriptorSets, queue, frameCounter, currentBuffer,
                    recordings >>

Next ==
    \/ bloom_prepare
    \/ shadow_prepare
    \/ offscreen_prepare
    \/ pbr_prepare
    \/ screenshot_prepare
    \/ draw
    \/ FsStart
    \/ FsEnd
    \/ OutStart
    \/ OutEnd
    \/ bloom_OnUpdateUIOverlay
    \/ shadow_OnUpdateUIOverlay
    \/ pbr_OnUpdateUIOverlay
    \/ offscreen_toggleShadowMapDisplay
    \/ offscreen_toogleLightPOV
    \/ offscreen_togglePaused
    \/ offscreen_update
    \/ screenshot_saveScreenshot
    \/ VulkanExample_destructor

Spec == Init /\ [][Next]_vars

\* ------------------------------------------------------------ vkx::Compute
\* Everything but the state of vkx::Compute.
graphics ==
    << example, prepared, destroyed, flags, drawCmdBuffers, offscreenCmdBuffer, resources,
       queue, frameCounter, currentBuffer, recordings, setupOrder, process, failed, shot,
       anim >>

\* The batch Compute::submit hands to queue.submit: the vk::SubmitInfo, and
\* how far the device has come with it.
\* Faulty variant: the batch waits for nothing.
SubmitInfo_NoWait(commandBufferCount) ==
    [ commandBufferCount |-> commandBufferCount,
      pWaitSemaphores |-> << >>,
      pWaitDstStageMask |-> << >>,
      pSignalSemaphores |-> << "complete" >>,
      waited |-> FALSE,
      state |-> "submitted" ]

SubmitInfo(commandBufferCount) ==
    [ commandBufferCount |-> commandBufferCount,
      pWaitSemaphores |-> << "ready" >>,
      pWaitDstStageMask |-> << {"eComputeShader"} >>,
      pSignalSemaphores |-> << "complete" >>,
      waited |-> FALSE,
      state |-> "submitted" ]

\* Compute::prepare: both semaphores are created, unsignaled.
Compute_prepare ==
    /\ semaphores.ready = "null"
    /\ semaphores' = [ ready |-> "unsignaled", complete |-> "unsignaled" ]
    /\ UNCHANGED << graphics, computeQueue, signals, waits >>

\* Compute::submit(commandBuffers).
Compute_submit ==
    /\ semaphores.ready \notin {"null", "destroyed"}
    /\ Len(computeQueue) < MaxSubmits
    /\ \E commandBufferCount \in 0..MaxCommandBuffers :
         computeQueue' = Append(computeQueue, SubmitInfo(commandBufferCount))
    /\ UNCHANGED << graphics, semaphores, signals, waits >>

\* Compute::destroy, once the queue has nothing left to do.
Compute_destroy ==
    /\ semaphores.ready \notin {"null", "destroyed"}
    /\ \A j \in DOMAIN computeQueue : computeQueue[j].state = "done"
    /\ semaphores' = [ ready |-> "destroyed", complete |-> "destroyed" ]
    /\ UNCHANGED << graphics, computeQueue, signals, waits >>

\* The stages of a batch its semaphore wait holds back.
WaitsAt(batch, stage) ==
    \E n \in DOMAIN batch.pWaitSemaphores : stage \in batch.pWaitDstStageMask[n]

\* The device: the semaphore wait of a batch.  Batches wait in the order
\* they were submitted; the wait ends when every semaphore waited for is
\* signaled, and leaves them unsignaled.
Device_wait ==
    \E j \in DOMAIN computeQueue :
        LET batch == computeQueue[j]
            waited == Range(batch.pWaitSemaphores)
        IN  /\ batch.state = "submitted" /\ ~batch.waited
            /\ waited # {}
            /\ \A i \in 1..(j - 1) :
                   computeQueue[i].waited \/ computeQueue[i].pWaitSemaphores = << >>
            /\ \A sem \in waited : semaphores[sem] = "signaled"
            /\ semaphores' =
                 [ sem \in DOMAIN semaphores |->
                     IF sem \in waited THEN "unsignaled" ELSE semaphores[sem] ]
            /\ waits' =
                 [ sem \in DOMAIN waits |-> waits[sem] + (IF sem \in waited THEN 1 ELSE 0) ]
            /\ computeQueue' = [computeQueue EXCEPT ![j].waited = TRUE]
            /\ UNCHANGED << graphics, signals >>

\* The device: the compute shader stage of a batch begins; it is held back
\* while a semaphore wait of the batch that covers the stage has not ended.
Device_computeShader ==
    \E j \in DOMAIN computeQueue :
        LET batch == computeQueue[j]
        IN  /\ batch.state = "submitted"
            /\ WaitsAt(batch, "eComputeShader") => batch.waited
            /\ computeQueue' = [computeQueue EXCEPT ![j].state = "running"]
            /\ UNCHANGED << graphics, semaphores, signals, waits >>

\* The device: a batch completes and its semaphores are signaled.
Device_complete ==
    \E j \in DOMAIN computeQueue :
        LET batch == computeQueue[j]
            signaled == Range(batch.pSignalSemaphores)
        IN  /\ batch.state = "running"
            /\ computeQueue' = [computeQueue EXCEPT ![j].state = "done"]
            /\ semaphores' =
                 [ sem \in DOMAIN semaphores |->
                     IF sem \in signaled THEN "signaled" ELSE semaphores[sem] ]
            /\ signals' =
                 [ sem \in DOMAIN signals |->
                     signals[sem] + (IF sem \in signaled THEN 1 ELSE 0) ]
            /\ UNCHANGED << graphics, waits >>

\* The graphics submission of the example that owns the Compute signals
\* semaphores.ready when it is done with what the compute work writes.
Graphics_signalReady ==
    /\ semaphores.ready = "unsignaled"
    /\ signals.ready < MaxSignals
    /\ semaphores' = [semaphores EXCEPT !.ready = "signaled"]
    /\ signals' = [signals EXCEPT !.ready = @ + 1]
    /\ UNCHANGED << graphics, computeQueue, waits >>

\* ... and waits for semaphores.complete before it reads it.
Graphics_waitComplete ==
    /\ semaphores.complete = "signaled"
    /\ semaphores' = [semaphores EXCEPT !.complete = "unsignaled"]
    /\ waits' = [waits EXCEPT !.complete = @ + 1]
    /\ UNCHANGED << graphics, computeQueue, signals >>

ComputeInit == Init /\ example = "bloom"

ComputeNext ==
    \/ Compute_prepare
    \/ Compute_submit
    \/ Compute_destroy
    \/ Device_wait
    \/ Device_computeShader
    \/ Device_complete
    \/ Graphics_signalReady
    \/ Graphics_waitComplete

ComputeSpec == ComputeInit /\ [][ComputeNext]_vars

\* ================================================================= claims
\* The draw command buffers buildCommandBuffers records (the draw command
\* buffers of the offscreen example are recorded by the example base).
BuiltByBuildCommandBuffers == example \in {"bloom", "shadowmapping", "pbrbasic"}

\* The render pass instances of cmds that attach image t.
WritersOf(cmds, t) ==
    { b \in Positions(cmds, "BeginRenderPass") : t \in AttachedImages(offscreenPass, cmds[b].b) }

\* The instances attaching t that have ended before position k.
WritersBefore(cmds, t, k) ==
    { b \in WritersOf(cmds, t) : PassEndOf(cmds, b) # 0 /\ PassEndOf(cmds, b) < k }

Draws(cmds) == { k \in 1..Len(cmds) : cmds[k].op \in DrawOps }

\* The draws of cmds that sample an offscreen image.
SamplingDraws(cmds) == { k \in Draws(cmds) : SampledAt(cmds, descriptorSets, images, k) # {} }

\* The images attached by the instance the command at k lies in.
OwnAttachments(cmds, k) ==
    IF PassBeginAt(cmds, k) = 0 THEN {}
    ELSE AttachedImages(offscreenPass, cmds[PassBeginAt(cmds, k)].b)

\* C1: the device being held back by nothing but the subpass dependencies of
\* the offscreen render pass, whenever the fragment shader stage of a pass
\* instance is sampling an offscreen target, the write of that target by the
\* instance of the same frame has completed (the target is Readable, written
\* in the frame of the reader) and has been made visible to shader reads.
C1_ReadsAfterWritesVisible ==
    \A j \in DOMAIN queue :
        queue[j].fs = "run" =>
            \A t \in queue[j].reads :
                /\ images[t].state = "Readable"
                /\ images[t].frame = queue[j].frame
                /\ images[t].visible

\* A later frame samples an offscreen target while the queue holds two frames.
C1_Witness ==
    /\ InFlight = 2
    /\ \E j \in DOMAIN queue :
         /\ queue[j].fs = "run"
         /\ queue[j].reads # {}
         /\ queue[j].frame >= 2

\* C2: in every command buffer recorded by buildCommandBuffers, whatever the
\* recording flags, every draw that samples an offscreen target comes after
\* the end of a render pass instance, in the same command buffer, that has
\* that target as attachment.
C2_SamplingDrawAfterWriter ==
    (prepared /\ BuiltByBuildCommandBuffers) =>
        \A i \in Buffers :
            \A k \in SamplingDraws(drawCmdBuffers[i]) :
                \A t \in SampledAt(drawCmdBuffers[i], descriptorSets, images, k) :
                    WritersBefore(drawCmdBuffers[i], t, k) # {}

\* Shadow mapping re-recorded with every flag away from its default: the quad
\* and the scene both sample the shadow map.
C2_Witness ==
    /\ example = "shadowmapping" /\ prepared
    /\ displayShadowMap /\ ~filterPCF /\ sceneIndex = 1
    /\ Cardinality(SamplingDraws(drawCmdBuffers[0])) = 2

\* C3: once bloom is off and the command buffers are re-recorded, no render
\* pass instance on an offscreen framebuffer is recorded, the horizontal blur
\* (its descriptor set, its pipeline) is not recorded, no draw samples an
\* offscreen target, and each recording is complete (from
\* vkBeginCommandBuffer to vkEndCommandBuffer, every render pass ended).
C3_BloomOffNoDanglingRead ==
    (example = "bloom" /\ prepared /\ ~bloom) =>
        \A i \in Buffers :
            LET cmds == drawCmdBuffers[i]
            IN  /\ \A b \in Positions(cmds, "BeginRenderPass") :
                       cmds[b].b \notin DOMAIN offscreenPass.framebuffers
                /\ \A k \in DOMAIN cmds :
                       /\ cmds[k].b # "descriptorSets.blurHorz"
                       /\ cmds[k].a # "pipelines.blurHorz"
                /\ SamplingDraws(cmds) = {}
                /\ cmds # << >>
                /\ cmds[1].op = "BeginCommandBuffer"
                /\ cmds[Len(cmds)].op = "EndCommandBuffer"
                /\ \A b \in Positions(cmds, "BeginRenderPass") : PassEndOf(cmds, b) # 0

\* Bloom has been switched off and the command buffers re-recorded.
C3_Witness ==
    /\ example = "bloom" /\ prepared /\ ~bloom /\ recordings >= 2
    /\ \A i \in Buffers : Positions(drawCmdBuffers[i], "Draw") = {}

\* The pipeline bound for the draws of the instance begun at b.
PipelinesOf(cmds, b) ==
    { BoundPipelineAt(cmds, k) : k \in { d \in Draws(cmds) : PassBeginAt(cmds, d) = b } }

\* C4, as stated: in every recorded frame each offscreen render target is
\* the attachment of exactly one render pass instance.
C4_ExactlyOneWriterEveryFrame ==
    (prepared /\ example \in {"bloom", "shadowmapping"}) =>
        \A i \in Buffers :
            \A t \in RenderTargets(images) :
                Cardinality(WritersOf(drawCmdBuffers[i], t)) = 1

\* C4, amended: in every recorded frame each offscreen render target is the
\* attachment of at most one render pass instance: exactly one in shadow
\* mapping (the light-POV pass) and in bloom while bloom is on
\* (framebuffers[0]: the glow pass, framebuffers[1]: the vertical blur), none
\* in bloom while bloom is off.
C4_AtMostOneWriter ==
    (prepared /\ example \in {"bloom", "shadowmapping"}) =>
        \A i \in Buffers :
            LET cmds == drawCmdBuffers[i]
                writer(t) == CHOOSE b \in WritersOf(cmds, t) : TRUE
            IN  /\ \A t \in RenderTargets(images) :
                       /\ Cardinality(WritersOf(cmds, t)) <= 1
                       /\ Cardinality(WritersOf(cmds, t)) = 1 <=> (example = "bloom" => bloom)
                /\ (example = "bloom" /\ bloom) =>
                       /\ PipelinesOf(cmds, writer("framebuffers[0].color")) = {"pipelines.glowPass"}
                       /\ PipelinesOf(cmds, writer("framebuffers[1].color")) = {"pipelines.blurVert"}
                /\ example = "shadowmapping" =>
                       PipelinesOf(cmds, writer("offscreenPass.depth")) = {"pipelines.offscreen"}

\* Bloom is on again after having been off: both targets have their writer.
C4_Witness ==
    /\ example = "bloom" /\ prepared /\ bloom /\ recordings >= 3
    /\ \A t \in RenderTargets(images) : Cardinality(WritersOf(drawCmdBuffers[0], t)) = 1

\* C5: no draw samples an attachment of the render pass instance it lies in;
\* inside an offscreen pass every sampled target is the attachment of an
\* instance that ended before; the vertical blur samples framebuffers[0]
\* only, the glow pass and the shadow-map passes sample no offscreen target.
C5_NoFeedback ==
    prepared =>
        \A cmds \in Range(drawCmdBuffers) \cup {offscreenCmdBuffer} :
            \A k \in Draws(cmds) :
                LET sampled == SampledAt(cmds, descriptorSets, images, k)
                    pipeline == BoundPipelineAt(cmds, k)
                IN  /\ \A t \in sampled :
                          /\ t \notin OwnAttachments(cmds, k)
                          /\ OwnAttachments(cmds, k) # {} =>
                                WritersBefore(cmds, t, PassBeginAt(cmds, k)) # {}
                    /\ pipeline = "pipelines.blurVert" => sampled = {"framebuffers[0].color"}
                    /\ pipeline \in {"pipelines.glowPass", "pipelines.offscreen"} => sampled = {}

\* The vertical blur is recorded: a draw inside an offscreen pass that samples
\* an offscreen target.
C5_Witness ==
    /\ example = "bloom" /\ prepared
    /\ \E k \in SamplingDraws(drawCmdBuffers[0]) : OwnAttachments(drawCmdBuffers[0], k) # {}

\* C6: a step that switches a feature off (bloom; displayShadowMap, the
\* scene and the filter staying as they are) leaves in every draw command
\* buffer an order-preserving subsequence of what was recorded with the
\* feature on, and a step that switches it on leaves a sequence of which the
\* previous recording is an order-preserving subsequence.
C6_ToggleStep ==
    LET sameRest == sceneIndex' = sceneIndex /\ filterPCF' = filterPCF
        off == \/ bloom /\ ~bloom'
               \/ displayShadowMap /\ ~displayShadowMap' /\ sameRest
        on == \/ ~bloom /\ bloom'
              \/ ~displayShadowMap /\ displayShadowMap' /\ sameRest
    IN  /\ off => \A i \in Buffers : IsSubsequence(drawCmdBuffers'[i], drawCmdBuffers[i])
        /\ on => \A i \in Buffers : IsSubsequence(drawCmdBuffers[i], drawCmdBuffers'[i])

C6_ToggleKeepsOrder == [][C6_ToggleStep]_vars

\* displayShadowMap is off again after the command buffers have been recorded
\* with it on, the filter having been changed on the way.
C6_Witness ==
    /\ example = "shadowmapping" /\ prepared
    /\ ~displayShadowMap /\ ~filterPCF
    /\ recordings >= 3

\* One step of the state machine of render target t.
C7_TargetStep(t) ==
    LET was == images[t]
        now == images'[t]
    IN  (now.state # was.state \/ now.frame # was.frame) =>
            \/ was.state = "Uninitialized" /\ now.state = "Written"
            \/ was.state = "Written" /\ now.state = "Readable" /\ now.frame = was.frame
            \/ was.state = "Readable" /\ now.state = "Written" /\ now.frame > was.frame
            \/ now.state = "Destroyed" /\ now.frame = was.frame /\ destroyed'

C7_Step ==
    /\ \A t \in RenderTargets(images) : t \in DOMAIN images' /\ C7_TargetStep(t)
    /\ \A t \in RenderTargets(images') \ DOMAIN images : images'[t].state = "Uninitialized"

C7_NeverSampledUnwritten ==
    \A j \in DOMAIN queue :
        queue[j].fs = "run" =>
            \A t \in queue[j].reads : images[t].state \notin {"Uninitialized", "Destroyed"}

\* C7: over frames and re-recordings each offscreen render target, created
\* Uninitialized, only steps Uninitialized -> Written -> Readable -> Written
\* (of a later frame) -> ..., a Readable state being reached from the Written
\* state of the same frame; it is Destroyed only by the destructor; and no
\* fragment shader samples it while it is Uninitialized or Destroyed.
C7_TargetStateMachine == [][C7_Step]_vars /\ []C7_NeverSampledUnwritten

\* A target is being written again, in a later frame, after a re-recording.
C7_Witness ==
    /\ recordings >= 2
    /\ \E t \in RenderTargets(images) : images[t].state = "Written" /\ images[t].frame >= 2

\* The descriptors through which an offscreen image is sampled.
SamplingDescriptors ==
    { w \in UNION Range(descriptorSets) :
        w.type = "CombinedImageSampler" /\ w.resource \in DOMAIN images }

\* The descriptions of the attachments through which the offscreen pass
\* writes image t.
AttachmentsOf(t) ==
    { AttachmentOf(offscreenPass, fb, t) :
        fb \in { f \in DOMAIN offscreenPass.framebuffers : t \in AttachedImages(offscreenPass, f) } }

\* The layouts in which an image can only be read, by a shader among others.
ShaderReadOnlyLayouts == {"SHADER_READ_ONLY_OPTIMAL", "DEPTH_STENCIL_READ_ONLY_OPTIMAL"}

\* C8: in the bloom example and in both shadow mapping examples every
\* offscreen target that is sampled is left by its render pass in a
\* shader-read-only layout, and every descriptor through which it is sampled
\* declares the layout the render pass leaves it in (final layout of the
\* attachment = imageLayout of the descriptor).
C8_FinalLayoutIsDescriptorLayout ==
    (prepared /\ example \in {"bloom", "shadowmapping", "offscreen"}) =>
        \A w \in SamplingDescriptors :
            /\ AttachmentsOf(w.resource) # {}
            /\ \A a \in AttachmentsOf(w.resource) :
                   /\ a.finalLayout \in ShaderReadOnlyLayouts
                   /\ w.imageLayout = a.finalLayout

\* The current recording of draw command buffer i, were it made into an empty
\* command buffer.
FreshRecording(i) ==
    CASE example = "bloom" -> bloom_recordOne(<< >>, i, bloom)
      [] example = "shadowmapping" ->
           shadow_recordOne(<< >>, i, sceneIndex, displayShadowMap, filterPCF)
      [] example = "pbrbasic" -> pbr_recordOne(<< >>, i, materialIndex, objectIndex)
      [] example = "screenshot" -> screenshot_recordOne(<< >>, i)
      [] OTHER ->
           offscreen_updateDrawCommandBuffers([ b \in Buffers |-> << >> ], displayShadowMap)[i]

LayoutAt(cmds, k, t) ==
    LET begun == { b \in WritersOf(cmds, t) : b < k }
    IN  IF begun = {} THEN "UNDEFINED"
        ELSE LET b == Max(begun)
                 a == AttachmentOf(offscreenPass, cmds[b].b, t)
             IN  IF PassEndOf(cmds, b) # 0 /\ PassEndOf(cmds, b) < k
                   THEN a.finalLayout ELSE a.layout

WritableLayouts == {"COLOR_ATTACHMENT_OPTIMAL", "DEPTH_STENCIL_ATTACHMENT_OPTIMAL"}

\* C10: in the bloom sequence (glow, vertical blur, composite) every target a
\* draw samples has been brought, before the draw, to the shader-readable
\* layout its descriptor declares, by the end of the pass that wrote it, and
\* every attachment of the pass a draw lies in has been brought to a writable
\* layout by the begin of that pass.
C10_TransitionsBeforeDraws ==
    (example = "bloom" /\ prepared /\ bloom) =>
        \A i \in Buffers :
            LET cmds == drawCmdBuffers[i]
            IN  \A k \in Draws(cmds) :
                  /\ \A w \in { x \in descriptorSets[BoundSetAt(cmds, k)] :
                                  x.resource \in DOMAIN images } :
                         /\ LayoutAt(cmds, k, w.resource) = "SHADER_READ_ONLY_OPTIMAL"
                         /\ LayoutAt(cmds, k, w.resource) = w.imageLayout
                         /\ WritersBefore(cmds, w.resource, PassBeginAt(cmds, k)) # {}
                  /\ \A t \in OwnAttachments(cmds, k) :
                         LayoutAt(cmds, k, t) \in WritableLayouts

\* The three passes are recorded: the vertical blur samples framebuffers[0],
\* the composite samples framebuffers[1].
C10_Witness ==
    /\ example = "bloom" /\ prepared /\ bloom
    /\ { SampledAt(drawCmdBuffers[0], descriptorSets, images, k) :
           k \in SamplingDraws(drawCmdBuffers[0]) }
         = { {"framebuffers[0].color"}, {"framebuffers[1].color"} }

\* C12: a device call that returns an error ends the process: no handler
\* goes on past a failed allocation, creation, mapping or recording call.
\* vulkanDevice->createBuffer in prepareUniformBuffers and vkMapMemory in
\* saveScreenshot are the two calls whose result nothing looks at.
C12_DeviceFailureIsFatal ==
    failed # {} => process = "exited"

Creates(step) ==
    CASE step \in {"prepareOffscreen", "prepareOffscreenFramebuffer",
                   "OffscreenExampleBase::prepare"} -> "renderPass"
      [] step = "preparePipelines" -> "pipeline"
      [] step \in {"setupDescriptorSet", "setupDescriptorSets"} -> "descriptorSet"
      [] step \in {"buildCommandBuffers", "updateDrawCommandBuffers",
                   "buildOffscreenCommandBuffer"} -> "commandBuffer"
      [] OTHER -> "none"

\* The order the claim fixes; 0 for what it does not speak of.
CreationRank(kind) ==
    CASE kind = "renderPass" -> 1
      [] kind = "pipeline" -> 2
      [] kind = "descriptorSet" -> 3
      [] kind = "commandBuffer" -> 4
      [] OTHER -> 0

\* C14: in every example the offscreen render pass is created before the
\* pipelines, the pipelines before the descriptor sets are allocated and
\* written, the descriptor sets before the command buffers are recorded,
\* and no frame is submitted before prepare() has done all of it.
C14_SetupBeforeSubmit ==
    /\ \A i \in DOMAIN setupOrder : \A j \in DOMAIN setupOrder :
          LET ri == CreationRank(Creates(setupOrder[i]))
              rj == CreationRank(Creates(setupOrder[j]))
          IN  (i < j /\ ri > 0 /\ rj > 0) => ri <= rj
    /\ prepared =>
          /\ {"pipeline", "descriptorSet", "commandBuffer"}
                \subseteq { Creates(setupOrder[i]) : i \in DOMAIN setupOrder }
          /\ offscreenPass # NoOffscreenPass =>
                \E i \in DOMAIN setupOrder : Creates(setupOrder[i]) = "renderPass"
    /\ frameCounter > 0 => prepared

\* A frame of an example with an offscreen render pass has been submitted.
C14_Witness ==
    /\ frameCounter > 0
    /\ offscreenPass # NoOffscreenPass
    /\ Len(setupOrder) > 0

\* The render pass instances on a swapchain framebuffer.
OnscreenPasses(cmds) ==
    { b \in Positions(cmds, "BeginRenderPass") : cmds[b].b = "frameBuffers[i]" }

\* C15: every draw command buffer of every example draws the UI overlay
\* exactly once, inside the render pass on the swapchain framebuffer, after
\* every scene and composite draw of that pass and before the pass ends,
\* whatever the toggles are.
C15_OverlayOnceAfterDraws ==
    prepared =>
        \A i \in Buffers :
            LET cmds == drawCmdBuffers[i]
                ui == Positions(cmds, "DrawUI")
                passes == OnscreenPasses(cmds)
                draws == Draws(cmds)
            IN  /\ Cardinality(ui) = 1
                /\ Cardinality(passes) = 1
                /\ \A u \in ui : \A b \in passes :
                      LET end == PassEndOf(cmds, b)
                      IN  /\ b < u /\ u < end
                          /\ \A k \in draws : k < end => k < u
                          /\ \E k \in draws : b < k /\ k < u

\* The draw command buffers have been recorded again with the toggles away
\* from what they were at the first recording.
C15_Witness ==
    /\ prepared /\ recordings >= 2
    /\ ~bloom \/ displayShadowMap \/ materialIndex # 0
    /\ \A i \in Buffers : Positions(drawCmdBuffers[i], "DrawUI") # {}

\* The render pass instances of cmds on a framebuffer of the offscreen pass.
OffscreenPasses(cmds) ==
    { b \in Positions(cmds, "BeginRenderPass") : cmds[b].b \in DOMAIN offscreenPass.framebuffers }

\* What a step may do to the offscreen images: create them all, in the step
\* that completes prepare(); destroy them all, in the destructor; never
\* change the extent of one, and never bring one back.
C16_Step ==
    /\ DOMAIN images' # DOMAIN images => (images = NoImages /\ ~prepared /\ prepared')
    /\ \A t \in DOMAIN images :
          /\ t \in DOMAIN images'
          /\ images'[t].extent = images[t].extent
          /\ images[t].state = "Destroyed" => images'[t].state = "Destroyed"
          /\ (images'[t].state = "Destroyed" /\ images[t].state # "Destroyed")
                => (~destroyed /\ destroyed')

\* The size is the fixed one and every recorded offscreen pass renders to
\* an area of exactly the extent of the images attached.
C16_FixedSize ==
    /\ (prepared /\ example = "bloom") =>
          (DOMAIN images # {} /\ \A t \in DOMAIN images : images[t].extent = FB_DIM)
    /\ (prepared /\ example = "shadowmapping") =>
          (DOMAIN images # {} /\ \A t \in DOMAIN images : images[t].extent = SHADOWMAP_DIM)
    /\ ~prepared => images = NoImages
    /\ \A t \in DOMAIN images : images[t].state = "Destroyed" <=> destroyed
    /\ \A cmds \in Range(drawCmdBuffers) \cup {offscreenCmdBuffer} :
          \A b \in OffscreenPasses(cmds) :
              \A t \in AttachedImages(offscreenPass, cmds[b].b) :
                  cmds[b].m = images[t].extent

\* C16: the offscreen targets are created once, by prepare(), at the fixed
\* size (FB_DIM for bloom, SHADOWMAP_DIM for shadow mapping) and destroyed
\* once, by the destructor; no step in between creates, destroys or resizes
\* one, and every recorded offscreen pass uses a render area equal to the
\* extent of its target.
C16_TargetsFixedForLife == [][C16_Step]_vars /\ []C16_FixedSize

\* Frames were rendered, the command buffers recorded again, and the
\* targets destroyed at shutdown.
C16_Witness ==
    /\ destroyed /\ frameCounter >= 2 /\ recordings >= 2
    /\ DOMAIN images # {}
    /\ \A t \in DOMAIN images : images[t].state = "Destroyed"

\* C17: what a pass samples is exactly what the writer pass of the same
\* frame produced: the attachment was cleared when that pass began and
\* stored when it ended, so a running fragment shader finds in each target
\* it reads defined contents made of the rendering of its own frame only.
C17_SampledContentsOfThisFrame ==
    \A j \in DOMAIN queue :
        queue[j].fs = "run" =>
            \A t \in queue[j].reads :
                /\ images[t].defined
                /\ images[t].contents = {queue[j].frame}

\* A pass of the second or a later frame is sampling a target that an
\* earlier frame had rendered to as well.
C17_Witness ==
    \E j \in DOMAIN queue :
        /\ queue[j].fs = "run"
        /\ queue[j].frame >= 2
        /\ queue[j].reads # {}
        /\ \A t \in queue[j].reads : images[t].defined

\* The draws of cmds made with pipeline p bound.
DrawsWith(cmds, p) == { k \in Draws(cmds) : BoundPipelineAt(cmds, k) = p }

\* C18: with bloom on, the blur is applied vertically first and horizontally
\* second.  Every draw command buffer has one draw with pipelines.blurVert
\* and one with pipelines.blurHorz; the first samples framebuffers[0] and
\* renders into framebuffers[1], the second is recorded after the pass of
\* the first has ended and samples exactly the image the first rendered
\* into; the two pipelines differ in blurdirection and each is used in the
\* render pass it was created for.
C18_VerticalThenHorizontal ==
    (prepared /\ example = "bloom" /\ bloom) =>
        \A i \in Buffers :
            LET cmds == drawCmdBuffers[i]
                vert == DrawsWith(cmds, "pipelines.blurVert")
                horz == DrawsWith(cmds, "pipelines.blurHorz")
            IN  /\ Cardinality(vert) = 1 /\ Cardinality(horz) = 1
                /\ \A v \in vert : \A h \in horz :
                      LET vb == PassBeginAt(cmds, v)
                          hb == PassBeginAt(cmds, h)
                      IN  /\ vb # 0 /\ hb # 0
                          /\ cmds[vb].b = "offscreenPass.framebuffers[1]"
                          /\ SampledAt(cmds, descriptorSets, images, v)
                               = {"framebuffers[0].color"}
                          /\ PassEndOf(cmds, vb) < hb
                          /\ SampledAt(cmds, descriptorSets, images, h)
                               = AttachedImages(offscreenPass, cmds[vb].b)
                                   \cap RenderTargets(images)
                          /\ cmds[vb].a = bloom_preparePipelines["pipelines.blurVert"].renderPass
                          /\ cmds[hb].a = bloom_preparePipelines["pipelines.blurHorz"].renderPass
                /\ bloom_preparePipelines["pipelines.blurVert"].blurdirection = 0
                /\ bloom_preparePipelines["pipelines.blurHorz"].blurdirection = 1

\* Bloom is on again after it had been switched off, and both blur draws
\* are recorded.
C18_Witness ==
    /\ prepared /\ example = "bloom" /\ bloom /\ recordings >= 3
    /\ DrawsWith(drawCmdBuffers[0], "pipelines.blurVert") # {}
    /\ DrawsWith(drawCmdBuffers[0], "pipelines.blurHorz") # {}

\* The blits and copies of a copy command buffer.
Transfers(cmds) == { k \in DOMAIN cmds : cmds[k].op \in {"BlitImage", "CopyImage"} }

\* C19: saveScreenshot keeps the image layouts consistent.  Run in the order
\* recorded from the layouts on entry, every barrier of copyCmd names as old
\* layout the layout its image is in, the one blit or copy finds the
\* swapchain image in the transfer source and the destination in the
\* transfer destination layout, as it declares; when the command buffer
\* has run the destination is in the general layout, in which it is mapped,
\* and the swapchain image is back in the present layout it had on entry.
C19_ScreenshotLayouts ==
    copyCmd # << >> =>
        /\ Cardinality(Transfers(copyCmd)) = 1
        /\ \A k \in DOMAIN copyCmd :
              LET c == copyCmd[k]
                  before == Execute(copyCmd, k - 1, screenshot_onEntry, swapChainColorFormat)
              IN  IF k \in Transfers(copyCmd)
                    THEN /\ before.srcImage = "TRANSFER_SRC_OPTIMAL"
                         /\ before.dstImage = "TRANSFER_DST_OPTIMAL"
                         /\ c.srcImageLayout = before.srcImage
                         /\ c.dstImageLayout = before.dstImage
                    ELSE c.srcImageLayout = before[c.srcImage]
        /\ screenshot.dstImage = "GENERAL"
        /\ screenshot.srcImage = screenshot_onEntry.srcImage

\* A screenshot has been saved through a blit.
C19_Witness ==
    /\ screenshotSaved
    /\ \E k \in DOMAIN copyCmd : copyCmd[k].op = "BlitImage"
    /\ screenshot.data = << "R", "G", "B", "A" >>

\* C20: the image is blitted exactly when the swapchain format is a blit
\* source with optimal tiling and the destination format a blit
\* destination with linear tiling, and copied otherwise; the bytes of a
\* texel are written in the order 2, 1, 0 exactly when the image was copied
\* and the swapchain format is one of formatsBGR, never after a blit.
C20_BlitOrCopyAndSwizzle ==
    copyCmd # << >> =>
        LET blitted == \E k \in DOMAIN copyCmd : copyCmd[k].op = "BlitImage"
            copied == \E k \in DOMAIN copyCmd : copyCmd[k].op = "CopyImage"
            swizzled == copied /\ swapChainColorFormat \in formatsBGR
            data == screenshot.data
        IN  /\ blitted <=> /\ "BLIT_SRC" \in formatProperties.optimalTilingFeatures
                            /\ "BLIT_DST" \in formatProperties.linearTilingFeatures
            /\ copied <=> ~blitted
            /\ screenshot.colorSwizzle <=> swizzled
            /\ blitted => ~screenshot.colorSwizzle
            /\ screenshotSaved =>
                  screenshot.ppm = IF swizzled THEN << data[3], data[2], data[1] >>
                                   ELSE << data[1], data[2], data[3] >>

\* A screenshot of a BGR swapchain has been saved through a copy, with the
\* swizzle.
C20_Witness ==
    /\ screenshotSaved
    /\ \E k \in DOMAIN copyCmd : copyCmd[k].op = "CopyImage"
    /\ screenshot.colorSwizzle
    /\ screenshot.data = << "B", "G", "R", "A" >>
    /\ screenshot.ppm = << "R", "G", "B" >>



\* C21: in the offscreen shadow mapping example a press of 's' flips
\* displayShadowMap and re-records the draw command buffers, which draw the
\* shadow map quad exactly when the flag is set; a press of 'l' flips lightPOV
\* and writes the uniform buffers anew, the scene seen from the light exactly
\* when the flag is set; a press of 'p' flips paused, and while paused the
\* light does not move.  A key flips no flag but its own, only 's' touches
\* the recorded commands, and the second of two presses of the same key puts
\* the flags and the recorded commands back to what the first found.
C21_KeyStep ==
    LET key == lastKey'.key
    IN  /\ key \in {"GLFW_KEY_P", "GLFW_KEY_L", "GLFW_KEY_S"}
        /\ (displayShadowMap' # displayShadowMap) <=> (key = "GLFW_KEY_S")
        /\ (lightPOV' # lightPOV) <=> (key = "GLFW_KEY_L")
        /\ (paused' # paused) <=> (key = "GLFW_KEY_P")
        /\ UNCHANGED << bloom, filterPCF, sceneIndex, materialIndex, objectIndex >>
        /\ key # "GLFW_KEY_S" => UNCHANGED drawCmdBuffers
        /\ key = "GLFW_KEY_S" =>
               \A i \in Buffers :
                   (DrawsWith(drawCmdBuffers'[i], "pipelines.quad") # {}) <=> displayShadowMap'
        /\ key = "GLFW_KEY_L" =>
               /\ uniformData'.lightPos = lightPos
               /\ (uniformData'.view = << "lookAt", lightPos >>) <=> lightPOV'
        /\ key = lastKey.key =>
               /\ << displayShadowMap', lightPOV', paused' >>
                    = << lastKey.displayShadowMap, lastKey.lightPOV, lastKey.paused >>
               /\ drawCmdBuffers' = lastKey.drawCmdBuffers

C21_Step ==
    /\ lastKey'.n # lastKey.n => C21_KeyStep
    /\ (prepared /\ paused) => UNCHANGED << lightPos, uniformData.lightPos >>

C21_KeysToggle == [][C21_Step]_vars

\* 's' has just been pressed a second time in a row, the shadow map is off
\* again after having been drawn; 'l' and 'p' have been pressed before, the
\* scene is seen from the light and the light stands still.
C21_Witness ==
    /\ example = "offscreen" /\ lastKey.key = lastKey.prev
    /\ lastKey.key = "GLFW_KEY_S" /\ ~displayShadowMap /\ recordings >= 3
    /\ lightPOV /\ paused

\* What a command sequence shows of the flags it was recorded under: the
\* pipelines bound, the meshes drawn, the materials pushed to the fragment
\* stage.
PipelinesBound(cmds) == { cmds[k].a : k \in Positions(cmds, "BindPipeline") }

MeshesDrawn(cmds) == { << cmds[k].a, cmds[k].n >> : k \in Positions(cmds, "DrawIndexed") }

MaterialsPushed(cmds) ==
    { cmds[k].n : k \in { j \in Positions(cmds, "PushConstants") : cmds[j].a = "eFragment" } }

\* The command sequence cmds is one recorded under the current flags.
RecordedFromFlags(cmds) ==
    LET bound == PipelinesBound(cmds)
        drawn == MeshesDrawn(cmds)
    IN  CASE example = "bloom" ->
               /\ (OffscreenPasses(cmds) # {}) = bloom
               /\ \A p \in {"pipelines.glowPass", "pipelines.blurVert", "pipelines.blurHorz"} :
                      (p \in bound) = bloom
          [] example = "shadowmapping" ->
               /\ { d \in drawn : d[1] = "scenes" } = { << "scenes", sceneIndex >> }
               /\ (<< "models.quad", 0 >> \in drawn) = displayShadowMap
               /\ bound \cap {"pipelines.sceneShadowPCF", "pipelines.sceneShadow"}
                    = { IF filterPCF THEN "pipelines.sceneShadowPCF" ELSE "pipelines.sceneShadow" }
          [] example = "pbrbasic" ->
               /\ drawn = { << "models.objects", objectIndex >> }
               /\ MaterialsPushed(cmds) = { materialIndex }
          [] example = "offscreen" ->
               (<< "meshes.quad", 0 >> \in drawn) = displayShadowMap
          [] OTHER -> drawn = { << "model", 0 >> }

\* C22: after every UI event handler (and every key handler that toggles
\* what is drawn) every draw command buffer is one recorded under the current
\* values of the flags that decide what is recorded: bloom; sceneIndex,
\* displayShadowMap, filterPCF; materialIndex, objectIndex.  A frame is never
\* submitted from a buffer recorded under an older value: the step that
\* submits a frame finds the buffer it submits recorded under the flags of
\* the moment and queues the offscreen passes of the bloom exactly when
\* bloom is on.
C22_RecordedUnderCurrentFlags ==
    prepared => \A i \in Buffers : RecordedFromFlags(drawCmdBuffers[i])

C22_SubmitStep ==
    frameCounter' # frameCounter =>
        /\ RecordedFromFlags(drawCmdBuffers[currentBuffer'])
        /\ UNCHANGED << flags, drawCmdBuffers >>
        /\ example = "bloom" =>
               (\E j \in DOMAIN queue' :
                    queue'[j].frame = frameCounter' /\ queue'[j].offscreen) = bloom

C22_BuffersFollowFlags == [][C22_SubmitStep]_vars /\ []C22_RecordedUnderCurrentFlags

\* A frame has been submitted after a handler changed a flag back and forth:
\* with bloom off after it was on, with the second scene without PCF and
\* with the shadow map shown, with another material and another object.
C22_Witness ==
    /\ frameCounter > 0 /\ recordings >= 2
    /\ \/ example = "bloom" /\ ~bloom
       \/ example = "shadowmapping" /\ sceneIndex = 1 /\ displayShadowMap /\ ~filterPCF
       \/ example = "pbrbasic" /\ materialIndex = 3 /\ objectIndex = 2

\* The brackets of a command sequence: where the command buffer and the
\* render pass instances begin and end.
Brackets(cmds) ==
    [ begin |-> Positions(cmds, "BeginCommandBuffer"),
      end |-> Positions(cmds, "EndCommandBuffer"),
      beginPass |-> Positions(cmds, "BeginRenderPass"),
      endPass |-> Positions(cmds, "EndRenderPass") ]

\* A command sequence is well bracketed: vkBeginCommandBuffer comes first
\* and only there, vkEndCommandBuffer last and only there; the bracket before
\* a vkCmdBeginRenderPass is no vkCmdBeginRenderPass, the bracket before a
\* vkCmdEndRenderPass and before every draw is one, the bracket before the
\* vkEndCommandBuffer is none; a pipeline is bound before the first draw.
WellBracketed(cmds) ==
    LET br == Brackets(cmds)
        passes == br.beginPass \cup br.endPass
        before(k) == { j \in passes : j < k }
        inPass(k) == before(k) # {} /\ Max(before(k)) \in br.beginPass
        binds == Positions(cmds, "BindPipeline")
        draws == Draws(cmds)
    IN  /\ br.begin = {1}
        /\ br.end = {Len(cmds)}
        /\ Len(cmds) > 1
        /\ \A b \in br.beginPass : ~inPass(b)
        /\ \A e \in br.endPass : inPass(e)
        /\ ~inPass(Len(cmds))
        /\ \A k \in draws \cup Positions(cmds, "DrawUI") : inPass(k)
        /\ \A k \in draws : \E j \in binds : j < k

\* C23: every command buffer recorded by buildCommandBuffers (bloom, shadow
\* mapping, PBR, screenshot) and by buildOffscreenCommandBuffer is well
\* bracketed under every value of the flags: one vkBeginCommandBuffer first
\* and one vkEndCommandBuffer last, every render pass begun outside any other
\* and ended before the next begins and before the buffer ends, every draw
\* inside a render pass instance and after a pipeline has been bound.
C23_WellBracketed ==
    prepared =>
        /\ example # "offscreen" =>
               \A i \in Buffers :
                   WellBracketed(drawCmdBuffers[i])
        /\ example = "offscreen" =>
               WellBracketed(offscreenCmdBuffer)

\* Buffers with two and with three render pass instances have been recorded
\* over an earlier recording; the offscreen command buffer has been recorded.
C23_Witness ==
    /\ prepared /\ recordings >= 2
    /\ \/ example = "bloom" /\ bloom
       \/ example = "shadowmapping" /\ displayShadowMap
       \/ example = "pbrbasic" /\ objectIndex # 0

\* The pipelines the example has created, with the layout and the render
\* pass each was created for.
Pipelines ==
    CASE example = "bloom" -> bloom_preparePipelines
      [] OTHER -> shadow_preparePipelines

OffscreenPipelines == {"pipelines.glowPass", "pipelines.blurVert", "pipelines.offscreen"}

OnscreenPipelines ==
    {"pipelines.blurHorz", "pipelines.phongPass", "pipelines.skyBox", "pipelines.quad",
     "pipelines.sceneShadow", "pipelines.sceneShadowPCF"}

\* C24: in the draw command buffers of the bloom and the shadow mapping
\* example every pipeline is bound inside a render pass instance of the
\* render pass it was created for: glowPass, blurVert and the shadow map's
\* offscreen pipeline only in the offscreen render pass; blurHorz, phongPass,
\* skyBox, quad, sceneShadow and sceneShadowPCF only in the render pass of the
\* swapchain framebuffers.  At every draw the descriptor set last bound was
\* bound, in the same instance, with the pipeline layout the pipeline of the
\* draw was created with.
C24_PipelinesMatchPassAndLayout ==
    (prepared /\ example \in {"bloom", "shadowmapping"}) =>
        \A i \in Buffers :
            LET cmds == drawCmdBuffers[i]
            IN  /\ \A k \in Positions(cmds, "BindPipeline") :
                       LET b == PassBeginAt(cmds, k)
                           p == cmds[k].a
                       IN  /\ b # 0
                           /\ p \in DOMAIN Pipelines
                           /\ Pipelines[p].renderPass = cmds[b].a
                           /\ p \in OffscreenPipelines => b \in OffscreenPasses(cmds)
                           /\ p \in OnscreenPipelines => b \in OnscreenPasses(cmds)
                           /\ p \in OffscreenPipelines \cup OnscreenPipelines
                /\ \A k \in Draws(cmds) :
                       LET j == LastBefore(cmds, k, "BindDescriptorSets")
                       IN  /\ j > PassBeginAt(cmds, k)
                           /\ cmds[j].a = Pipelines[BoundPipelineAt(cmds, k)].layout

\* Offscreen and onscreen pipelines are bound in one buffer: the glow pass
\* and both blur pipelines with bloom on, the shadow map's pipeline, the quad
\* and the scene without PCF.
C24_Witness ==
    /\ prepared
    /\ \/ /\ example = "bloom" /\ bloom
          /\ {"pipelines.glowPass", "pipelines.blurVert", "pipelines.blurHorz"}
                \subseteq PipelinesBound(drawCmdBuffers[0])
       \/ /\ example = "shadowmapping"
          /\ {"pipelines.offscreen", "pipelines.quad", "pipelines.sceneShadow"}
                \subseteq PipelinesBound(drawCmdBuffers[0])

\* The batches whose compute shader stage has begun, and those complete.
Started == { j \in DOMAIN computeQueue : computeQueue[j].state \in {"running", "done"} }

Completed == { j \in DOMAIN computeQueue : computeQueue[j].state = "done" }

\* C25: every batch of Compute::submit waits for semaphores.ready, once, at
\* the compute shader stage, and signals semaphores.complete, once.  Compute
\* work does not start before ready has been signalled: every batch that has
\* started has consumed a signal of ready of its own, every batch that has
\* completed has signalled complete once, and while nothing has signalled
\* ready (prepare creates both semaphores unsignaled) no batch has started.
\* The step that ends the wait of a batch finds ready signaled and leaves it
\* unsignaled.
C25_Waited ==
    /\ \A j \in DOMAIN computeQueue :
           /\ computeQueue[j].pWaitSemaphores = << "ready" >>
           /\ computeQueue[j].pWaitDstStageMask = << {"eComputeShader"} >>
           /\ computeQueue[j].pSignalSemaphores = << "complete" >>
           /\ j \in Started => computeQueue[j].waited
    /\ Cardinality({ j \in DOMAIN computeQueue : computeQueue[j].waited }) = waits.ready
    /\ waits.ready <= signals.ready
    /\ Cardinality(Completed) = signals.complete
    /\ signals.ready = 0 => Started = {}

C25_WaitStep ==
    waits'.ready # waits.ready =>
        /\ waits'.ready = waits.ready + 1
        /\ semaphores.ready = "signaled" /\ semaphores'.ready = "unsignaled"

C25_ComputeWaitsReadySignalsComplete == [][C25_WaitStep]_vars /\ []C25_Waited

\* ready has been signalled MaxSignals times and as many batches have
\* completed and signalled complete; one more batch has been submitted and
\* stays where it is.
C25_Witness ==
    /\ Len(computeQueue) = MaxSubmits
    /\ signals.ready = MaxSignals /\ signals.complete = MaxSignals
    /\ \E j \in DOMAIN computeQueue :
           computeQueue[j].state = "submitted" /\ ~computeQueue[j].waited
====
